---------------------------- MODULE Spec2Model ----------------------------
(***************************************************************************)
(* Model of the PROM-9 prompt engine (src/prompt_engine): the task history *)
(* store (storage.py, schemas.py), the attachment reader (attachments.py), *)
(* the prompt router (motor.py) and the part of the Tk front end that      *)
(* creates, saves and deletes tasks (ui.py).                               *)
(*                                                                         *)
(* Text is a TLA+ string. The literals of the source are written without   *)
(* their diacritics and with (TM) for the trademark sign.                  *)
(***************************************************************************)
EXTENDS Integers, Sequences, FiniteSets, TLC

VARIABLES
    historial_file,   \* storage.py HISTORIAL_FILE: the file historial/tareas.json
    now,              \* the wall clock, in ticks
    current_task,     \* ui.py self.current_task: <<>> is None, <<t>> a Tarea
    prompt_box,       \* ui.py self.prompt_box: the text of the prompt box
    history_cache,    \* ui.py self.history_cache
    last,             \* the last operation that ran and what it returned
    texto,            \* attachments.py: the text given to dividir_en_bloques
    max_chars,        \* attachments.py: the max_chars argument
    adjuntos,         \* the list of paths given to leer_archivos / generar_prompt
    salida,           \* what the last call of the attachment reader returned
    datos_tarea,      \* motor.py: the datos_tarea argument of generar_prompt
    perfil,           \* motor.py: the perfil argument
    contexto,         \* motor.py: the contexto argument
    resultado,        \* what the last call of generar_prompt or of a template returned
    carga,            \* the payload handed to a template of plantillas
    perfiles_file,    \* storage.py PERFILES_FILE: the file perfiles.json
    contextos_file,   \* storage.py CONTEXTOS_FILE: the file contextos.json
    cargado,          \* what the last loader called returned
    pool,             \* ui.py self.executor: what each worker thread is doing
    cola,             \* ui.py self.executor: the calls submitted and not started
    terminados,       \* the futures that are done and that no poll has seen
    mono,             \* voice_input.py: time.monotonic(), in seconds
    voice,            \* ui.py self.voice_input: the one VoiceInput
    campos,           \* the DictationField widgets that share it
    hilos,            \* the _transcribe_worker thread of each field
    bucle             \* the callbacks given to after(0, ...) and not yet run

uiVars == <<historial_file, now, current_task, prompt_box, history_cache, last>>
adjVars == <<texto, max_chars, adjuntos, salida>>

motorVars == <<datos_tarea, perfil, contexto, resultado, carga>>

loadVars == <<perfiles_file, contextos_file, cargado>>
poolVars == <<pool, cola, terminados>>
voiceVars == <<mono, voice, campos, hilos, bucle>>

vars == <<uiVars, adjVars, motorVars, loadVars, poolVars, voiceVars>>

notUi == <<adjVars, motorVars, loadVars, voiceVars>>
notAdj == <<uiVars, motorVars, loadVars, poolVars, voiceVars>>
notMotor == <<uiVars, texto, max_chars, salida, loadVars, poolVars, voiceVars>>
notLoad == <<now, current_task, prompt_box, history_cache, last, adjVars, motorVars,
             poolVars, voiceVars>>
notVoice == <<historial_file, now, current_task, prompt_box, history_cache, adjVars,
              motorVars, loadVars, poolVars>>

-----------------------------------------------------------------------------
(* Bounds of the model *)

MaxClock == 5          \* the clock stops after this many ticks
TicksPerSecond == 2    \* clock ticks inside one second of generate_task_id
StartSecond == 1       \* the second in which the program starts
IdWidth == 2           \* digits of a task id
IdRadix == 2           \* radix of one digit of a task id
MaxPrefix == 1         \* tokens of an interrupted write that reach the file

MaxLen == 4            \* longest text given to dividir_en_bloques
MaxChars == 3          \* greatest max_chars given to the attachment reader

Prompts == {"p1", "p2"}     \* prompt texts the user can produce
Alphabet == {"a", "b"}      \* characters of an attached text

-----------------------------------------------------------------------------
(* schemas.py *)

\* generate_task_id: strftime(TASK_ID_FORMAT) of the local time, a string of
\* zero-padded fields of fixed width, most significant first.
RECURSIVE ZeroPadded(_, _)
ZeroPadded(n, width) ==
    IF width = 0 THEN ""
    ELSE ZeroPadded(n \div IdRadix, width - 1) \o ToString(n % IdRadix)

generate_task_id(t) == ZeroPadded(StartSecond + (t \div TicksPerSecond), IdWidth)

\* iso_timestamp: the current instant, finer than one second.
iso_timestamp(t) == t

\* Python's order of two strings: by code point, a proper prefix first.
\* CodePoints lists the characters of the model in code point order.
CodePoints == "\n 0123456789ABCDEFGHIJKLMNOPQRSTUVWXYZabcdefghijklmnopqrstuvwxyz"

CharAt(s, i) == SubSeq(s, i, i)

Ord(c) == CHOOSE i \in 1..Len(CodePoints) : CharAt(CodePoints, i) = c

RECURSIVE StrLess(_, _)
StrLess(a, b) ==
    IF b = "" THEN FALSE
    ELSE IF a = "" THEN TRUE
    ELSE IF Head(a) # Head(b) THEN Ord(Head(a)) < Ord(Head(b))
    ELSE StrLess(Tail(a), Tail(b))

TareaFields == {"id", "usuario", "contexto", "area", "objetivo", "entradas",
                "restricciones", "formato_salida", "prioridad",
                "prompt_generado", "created_at"}

\* The dataclass Tarea as the UI constructs it: created_at takes its default.
Tarea(id, prompt, t) ==
    [id |-> id, usuario |-> "Ana", contexto |-> "General", area |-> "gestion",
     objetivo |-> "o", entradas |-> "e", restricciones |-> "r",
     formato_salida |-> "Respuesta estructurada", prioridad |-> "Media",
     prompt_generado |-> prompt, created_at |-> iso_timestamp(t)]

\* Tarea.to_dict
to_dict(tarea) == [k \in TareaFields |-> tarea[k]]

\* dict.get(key, default)
Get(d, key, default) == IF key \in DOMAIN d THEN d[key] ELSE default

\* Tarea.from_dict stamping the task with the instant of the load
from_dict_restamping(data, t) ==
    [id |-> Get(data, "id", ""),
     usuario |-> Get(data, "usuario", ""),
     contexto |-> Get(data, "contexto", ""),
     area |-> Get(data, "area", ""),
     objetivo |-> Get(data, "objetivo", ""),
     entradas |-> Get(data, "entradas", ""),
     restricciones |-> Get(data, "restricciones", ""),
     formato_salida |-> Get(data, "formato_salida", ""),
     prioridad |-> Get(data, "prioridad", "Media"),
     prompt_generado |-> Get(data, "prompt_generado", ""),
     created_at |-> iso_timestamp(t)]

\* Tarea.from_dict, called at instant t. Every id of a persisted dict is a
\* string already (to_dict writes tarea.id, a str), so str() returns it.
from_dict(data, t) ==
    [id |-> Get(data, "id", ""),
     usuario |-> Get(data, "usuario", ""),
     contexto |-> Get(data, "contexto", ""),
     area |-> Get(data, "area", ""),
     objetivo |-> Get(data, "objetivo", ""),
     entradas |-> Get(data, "entradas", ""),
     restricciones |-> Get(data, "restricciones", ""),
     formato_salida |-> Get(data, "formato_salida", ""),
     prioridad |-> Get(data, "prioridad", "Media"),
     prompt_generado |-> Get(data, "prompt_generado", ""),
     created_at |-> Get(data, "created_at", iso_timestamp(t))]

-----------------------------------------------------------------------------
(* storage.py: files and JSON *)

\* A file is absent, or holds a text: a sequence of JSON tokens.
NoFile == [exists |-> FALSE, text |-> <<>>]
FileOf(text) == [exists |-> TRUE, text |-> text]

\* The items of a JSON list are dicts or scalars; a scalar x is [scalar |-> x].
IsDict(v) == "scalar" \notin DOMAIN v

TokOpen == [t |-> "["]
TokClose == [t |-> "]"]
TokItem(v) == [t |-> "item", v |-> v]
TokNul == [t |-> "nul"]

\* json.dump(payload, fh, ...) of a list: the text it writes.
json_dump(payload) ==
    <<TokOpen>> \o [i \in 1..Len(payload) |-> TokItem(payload[i])] \o <<TokClose>>

\* json.load: the text is a document iff it is a bracketed list of items.
WellFormed(text) ==
    /\ Len(text) >= 2
    /\ text[1] = TokOpen
    /\ text[Len(text)] = TokClose
    /\ \A i \in 2..(Len(text) - 1) : text[i].t = "item"

json_load(text) == [i \in 1..(Len(text) - 2) |-> text[i + 1].v]

\* _read_json without its except clause: JSONDecodeError escapes.
read_json_no_except(file, default) ==
    IF ~file.exists THEN [ok |-> TRUE, value |-> default]
    ELSE IF WellFormed(file.text) THEN [ok |-> TRUE, value |-> json_load(file.text)]
    ELSE [ok |-> FALSE, value |-> default]

\* _read_json(path, default): [ok, value]; ok = FALSE is an exception raised.
read_json(file, default) ==
    IF ~file.exists THEN [ok |-> TRUE, value |-> default]
    ELSE IF WellFormed(file.text) THEN [ok |-> TRUE, value |-> json_load(file.text)]
    ELSE [ok |-> TRUE, value |-> default]

\* _write_json(path, payload): the file once the with-block has closed it.
write_json(payload) == FileOf(json_dump(payload))

-----------------------------------------------------------------------------
(* storage.py: the task history *)

\* list.sort(key=lambda t: t.id, reverse=True): stable, descending by id.
RECURSIVE InsertDesc(_, _)
InsertDesc(sorted, x) ==
    IF sorted = <<>> THEN <<x>>
    ELSE IF StrLess(Head(sorted).id, x.id) THEN <<x>> \o sorted
    ELSE <<Head(sorted)>> \o InsertDesc(Tail(sorted), x)

RECURSIVE SortDescFrom(_, _)
SortDescFrom(done, rest) ==
    IF rest = <<>> THEN done
    ELSE SortDescFrom(InsertDesc(done, Head(rest)), Tail(rest))

\* A sort that leaves the list as it is.
sort_by_id_noop(tareas) == tareas

sort_by_id_desc(tareas) == SortDescFrom(<<>>, tareas)

\* listar_tareas at instant t: [ok, value]; an exception of _read_json passes
\* through it.
try_listar_tareas(file, t) ==
    LET r == read_json(file, <<>>)
        data == r.value
        tareas == [i \in 1..Len(data) |-> from_dict(data[i], t)]
    IN  IF r.ok THEN [ok |-> TRUE, value |-> sort_by_id_desc(tareas)]
        ELSE [ok |-> FALSE, value |-> <<>>]

listar_tareas(file, t) == try_listar_tareas(file, t).value

\* The index of the first stored task with this id, 0 when there is none.
FirstIndex(tareas, id) ==
    IF \E i \in 1..Len(tareas) : tareas[i].id = id
    THEN CHOOSE i \in 1..Len(tareas) :
            /\ tareas[i].id = id
            /\ \A j \in 1..(i - 1) : tareas[j].id # id
    ELSE 0

\* Variants of the loop of guardar_tarea with one slip each: the match is
\* never found; the match is made on created_at instead of id.
upsert_append_only(tareas, tarea) == Append(tareas, tarea)

upsert_by_created_at(tareas, tarea) ==
    IF \E i \in 1..Len(tareas) : tareas[i].created_at = tarea.created_at
    THEN [tareas EXCEPT ![CHOOSE i \in 1..Len(tareas) :
                            tareas[i].created_at = tarea.created_at] = tarea]
    ELSE Append(tareas, tarea)

upsert(tareas, tarea) ==
    LET idx == FirstIndex(tareas, tarea.id)
    IN  IF idx # 0 THEN [tareas EXCEPT ![idx] = tarea]
        ELSE Append(tareas, tarea)

\* guardar_tarea(tarea): the list it hands to _write_json.
guardar_tarea_lista(leidas, tarea) ==
    LET tareas == sort_by_id_desc(upsert(leidas, tarea))
    IN  [i \in 1..Len(tareas) |-> to_dict(tareas[i])]

guardar_tarea_payload(file, tarea, t) == guardar_tarea_lista(listar_tareas(file, t), tarea)

guardar_tarea(file, tarea, t) == write_json(guardar_tarea_payload(file, tarea, t))

\* eliminar_tarea without the comparison of lengths: it always writes and
\* reports success.
eliminar_tarea_always_true(file, id, t) ==
    LET tareas == listar_tareas(file, t)
        keep(item) == item.id # id
        filtered == SelectSeq(tareas, keep)
    IN  [ret |-> TRUE,
         file |-> write_json([i \in 1..Len(filtered) |-> to_dict(filtered[i])])]

\* eliminar_tarea(tarea_id): what it returns and the file afterwards.
eliminar_tarea(file, id, t) ==
    LET tareas == listar_tareas(file, t)
        keep(item) == item.id # id
        filtered == SelectSeq(tareas, keep)
    IN  IF Len(filtered) = Len(tareas)
        THEN [ret |-> FALSE, file |-> file]
        ELSE [ret |-> TRUE,
              file |-> write_json([i \in 1..Len(filtered) |-> to_dict(filtered[i])])]

-----------------------------------------------------------------------------
(* Python values: results, exceptions, strings *)

\* A call returns a value or raises an exception about some file.
Ok(v) == [ok |-> TRUE, value |-> v]
Raise(exc, msg, about) == [ok |-> FALSE, exc |-> exc, msg |-> msg, about |-> about]

Whitespace == {" ", "\n", "\t"}

\* str.strip()
RECURSIVE LStrip(_)
LStrip(s) ==
    IF s # "" /\ Head(s) \in Whitespace THEN LStrip(Tail(s)) ELSE s

RECURSIVE RStrip(_)
RStrip(s) ==
    IF s # "" /\ CharAt(s, Len(s)) \in Whitespace
    THEN RStrip(SubSeq(s, 1, Len(s) - 1)) ELSE s

Strip(s) == RStrip(LStrip(s))

\* str.lower()
UpperCase == "ABCDEFGHIJKLMNOPQRSTUVWXYZ"
LowerCase == "abcdefghijklmnopqrstuvwxyz"

LowerChar(c) ==
    IF \E i \in 1..Len(UpperCase) : CharAt(UpperCase, i) = c
    THEN CharAt(LowerCase, CHOOSE i \in 1..Len(UpperCase) : CharAt(UpperCase, i) = c)
    ELSE c

RECURSIVE Lower(_)
Lower(s) == IF s = "" THEN "" ELSE LowerChar(Head(s)) \o Lower(Tail(s))

\* sep.join(parts)
RECURSIVE Join(_, _)
Join(parts, sep) ==
    IF parts = <<>> THEN ""
    ELSE IF Len(parts) = 1 THEN parts[1]
    ELSE parts[1] \o sep \o Join(Tail(parts), sep)

\* texto[inicio:fin] for 0 <= inicio <= fin
Slice(s, inicio, fin) == SubSeq(s, inicio + 1, IF fin < Len(s) THEN fin ELSE Len(s))

-----------------------------------------------------------------------------
(* attachments.py *)

MAX_CHARS_DEFAULT == 15000
TIPOS_SOPORTADOS == {".py", ".json", ".txt", ".md", ".pdf"}

\* Path.suffix: the name from its last dot on, empty without a dot or when
\* the only dot leads the name.
RECURSIVE LastDot(_, _)
LastDot(name, i) ==
    IF i = 0 THEN 0
    ELSE IF CharAt(name, i) = "." THEN i
    ELSE LastDot(name, i - 1)

Suffix(name) ==
    LET i == LastDot(name, Len(name))
    IN  IF i <= 1 \/ i = Len(name) THEN "" ELSE SubSeq(name, i, Len(name))

validar_tipo_archivo(name) == Lower(Suffix(name)) \in TIPOS_SOPORTADOS

\* The while loop of dividir_en_bloques, from offset inicio.
RECURSIVE BloquesDesde(_, _, _)
BloquesDesde(t, m, inicio) ==
    IF inicio < Len(t)
    THEN <<Slice(t, inicio, inicio + m)>> \o BloquesDesde(t, m, inicio + m)
    ELSE <<>>

\* Variants of dividir_en_bloques with one slip each: the loop stops before a
\* short last block; the one-block case is left to the loop; zero is taken
\* as 'no limit'.
RECURSIVE BloquesCompletosDesde(_, _, _)
BloquesCompletosDesde(t, m, inicio) ==
    IF inicio + m <= Len(t)
    THEN <<Slice(t, inicio, inicio + m)>> \o BloquesCompletosDesde(t, m, inicio + m)
    ELSE <<>>

dividir_en_bloques_truncating(t, m) ==
    IF m <= 0 THEN Raise("ValueError", "max_chars debe ser mayor a cero", "")
    ELSE IF Len(t) <= m THEN Ok(<<t>>)
    ELSE Ok(BloquesCompletosDesde(t, m, 0))

dividir_en_bloques_loop_only(t, m) ==
    IF m <= 0 THEN Raise("ValueError", "max_chars debe ser mayor a cero", "")
    ELSE Ok(BloquesDesde(t, m, 0))

dividir_en_bloques_zero_unlimited(t, m) ==
    IF m < 0 THEN Raise("ValueError", "max_chars debe ser mayor a cero", "")
    ELSE IF m = 0 \/ Len(t) <= m THEN Ok(<<t>>)
    ELSE Ok(BloquesDesde(t, m, 0))

dividir_en_bloques(t, m) ==
    IF m <= 0 THEN Raise("ValueError", "max_chars debe ser mayor a cero", "")
    ELSE IF Len(t) <= m THEN Ok(<<t>>)
    ELSE Ok(BloquesDesde(t, m, 0))

\* The files the paths of the model name. A file is missing, a directory or
\* a regular file with a content; a PDF may be unreadable for pypdf.
Paths == {"a.txt", "B.MD", "c.exe", "gone.txt", "dir.txt", "d.pdf", "x.pdf"}

FileSystem(content) ==
    [p \in Paths |->
        CASE p = "a.txt"    -> [kind |-> "file", text |-> content, readable |-> TRUE]
          [] p = "B.MD"     -> [kind |-> "file", text |-> "b", readable |-> TRUE]
          [] p = "c.exe"    -> [kind |-> "file", text |-> "", readable |-> TRUE]
          [] p = "gone.txt" -> [kind |-> "missing", text |-> "", readable |-> FALSE]
          [] p = "dir.txt"  -> [kind |-> "dir", text |-> "", readable |-> FALSE]
          [] p = "d.pdf"    -> [kind |-> "file", text |-> " a\n", readable |-> TRUE]
          [] p = "x.pdf"    -> [kind |-> "file", text |-> "", readable |-> FALSE]]

\* extraer_texto_pdf: the stripped text of the pages, or RuntimeError.
extraer_texto_pdf(name, file) ==
    IF file.readable THEN Ok(Strip(file.text))
    ELSE Raise("RuntimeError", "No se pudo leer el PDF", name)

\* _leer_archivo_texto: read_text as UTF-8, then as Latin-1, which decodes
\* every byte.
leer_archivo_texto(name, file) ==
    IF Lower(Suffix(name)) = ".pdf" THEN extraer_texto_pdf(name, file)
    ELSE Ok(file.text)

\* The sections leer_archivos appends for one file split into bloques.
SeccionesDe(name, bloques, m) ==
    IF Len(bloques) = 1
    THEN <<"\n--- " \o name \o " ---\n" \o bloques[1]>>
    ELSE <<"\n--- " \o name \o " ---\n"
             \o "[AVISO] Archivo extenso dividido en " \o ToString(Len(bloques))
             \o " bloques de hasta " \o ToString(m) \o " caracteres.">>
         \o [idx \in 1..Len(bloques) |->
                "\n[Bloque " \o ToString(idx) \o "/" \o ToString(Len(bloques))
                \o "]\n" \o bloques[idx]]

\* The for loop of leer_archivos over the paths left, secciones so far.
RECURSIVE LeerDesde(_, _, _, _)
LeerDesde(paths, m, secciones, fs) ==
    IF paths = <<>> THEN Ok(Strip(Join(secciones, "\n")))
    ELSE
      LET archivo == Head(paths)
          contenido == leer_archivo_texto(archivo, fs[archivo])
          bloques == dividir_en_bloques(contenido.value, m)
      IN  IF fs[archivo].kind # "file"
          THEN Raise("RuntimeError", "No existe el archivo adjunto: ", archivo)
          ELSE IF ~validar_tipo_archivo(archivo)
          THEN Raise("RuntimeError", "Tipo de archivo no soportado: ", archivo)
          ELSE IF ~contenido.ok THEN contenido
          ELSE IF ~bloques.ok THEN bloques
          ELSE LeerDesde(Tail(paths), m,
                         secciones \o SeccionesDe(archivo, bloques.value, m), fs)

\* leer_archivos leaving out the paths that are no regular file of a
\* supported type, where the code raises.
RECURSIVE LeerDesdeOmitiendo(_, _, _, _)
LeerDesdeOmitiendo(paths, m, secciones, fs) ==
    IF paths = <<>> THEN Ok(Strip(Join(secciones, "\n")))
    ELSE
      LET archivo == Head(paths)
          contenido == leer_archivo_texto(archivo, fs[archivo])
          bloques == dividir_en_bloques(contenido.value, m)
      IN  IF fs[archivo].kind # "file" \/ ~validar_tipo_archivo(archivo)
          THEN LeerDesdeOmitiendo(Tail(paths), m, secciones, fs)
          ELSE IF ~contenido.ok THEN contenido
          ELSE IF ~bloques.ok THEN bloques
          ELSE LeerDesdeOmitiendo(Tail(paths), m,
                         secciones \o SeccionesDe(archivo, bloques.value, m), fs)

leer_archivos_omitiendo(paths, m, fs) ==
    IF paths = <<>> THEN Ok("")
    ELSE LeerDesdeOmitiendo(paths, m, <<"## Archivos adjuntos para analisis">>, fs)

leer_archivos(paths, m, fs) ==
    IF paths = <<>> THEN Ok("")
    ELSE LeerDesde(paths, m, <<"## Archivos adjuntos para analisis">>, fs)

-----------------------------------------------------------------------------
(* plantillas/*.py: the templates. A payload is a function from keys to    *)
(* strings; especializacion_agricola, when present, is [list |-> <<..>>]   *)
(* or [str |-> ".."].                                                      *)

\* str.split(sep) for a one-character sep
RECURSIVE SplitFrom(_, _, _)
SplitFrom(s, sep, piece) ==
    IF s = "" THEN <<piece>>
    ELSE IF Head(s) = sep THEN <<piece>> \o SplitFrom(Tail(s), sep, "")
    ELSE SplitFrom(Tail(s), sep, piece \o Head(s))

Split(s, sep) == SplitFrom(s, sep, "")

\* [item.strip() for item in items if item.strip()]
StripNonEmpty(items) ==
    LET stripped == [i \in 1..Len(items) |-> Strip(items[i])]
    IN  SelectSeq(stripped, LAMBDA item : item # "")

IsList(v) == "list" \in DOMAIN v
IsStr(v) == "str" \in DOMAIN v

\* bool(value) of a list or a string
Truthy(v) == IF IsList(v) THEN v.list # <<>> ELSE v.str # ""

\* prom9_base._formatear_especializacion_agricola
especializaciones_base(payload) ==
    LET e == Get(payload, "especializacion_agricola", [list |-> <<>>])
    IN  IF IsStr(e) THEN StripNonEmpty(Split(e.str, ",")) ELSE e.list

formatear_especializacion_agricola(payload) ==
    LET e == Get(payload, "especializacion_agricola", [list |-> <<>>])
        items == especializaciones_base(payload)
    IN  IF ~Truthy(e) THEN ""
        ELSE "10) Este perfil esta especializado en los siguientes cultivos agricolas: "
             \o Join(items, ", ") \o ".\n"

RequiredKeys == <<"perfil_nombre", "perfil_rol", "contexto_nombre", "contexto_rol",
                  "objetivo", "entradas", "restricciones", "formato_salida",
                  "prioridad">>

\* The first required key the payload lacks, as payload[key] meets it.
FirstMissing(payload) ==
    LET missing == {i \in 1..Len(RequiredKeys) : RequiredKeys[i] \notin DOMAIN payload}
    IN  IF missing = {} THEN ""
        ELSE RequiredKeys[CHOOSE i \in missing : \A j \in missing : i <= j]

\* render_base reading every field with a default, so that no key is missed
render_base_con_defectos(payload) ==
    Ok("PROM-9(TM) | Base\n"
       \o "1) Perfil: " \o Get(payload, "perfil_nombre", "")
       \o " (" \o Get(payload, "perfil_rol", "") \o ")\n"
       \o "2) Contexto: " \o Get(payload, "contexto_nombre", "")
       \o " - Rol contextual: " \o Get(payload, "contexto_rol", "") \o "\n"
       \o "3) Objetivo: " \o Get(payload, "objetivo", "") \o "\n"
       \o "4) Entradas clave: " \o Get(payload, "entradas", "") \o "\n"
       \o "5) Restricciones: " \o Get(payload, "restricciones", "") \o "\n"
       \o "6) Formato de salida: " \o Get(payload, "formato_salida", "") \o "\n"
       \o "7) Prioridad: " \o Get(payload, "prioridad", "") \o "\n"
       \o "8) Criterios de calidad: Claridad, precision y accionabilidad.\n"
       \o "9) Instruccion final: Entrega una respuesta profesional y estructurada en espanol.\n"
       \o formatear_especializacion_agricola(payload))

\* prom9_base.render_base
render_base(payload) ==
    IF FirstMissing(payload) # ""
    THEN Raise("KeyError", FirstMissing(payload), "")
    ELSE Ok("PROM-9(TM) | Base\n"
            \o "1) Perfil: " \o payload["perfil_nombre"]
            \o " (" \o payload["perfil_rol"] \o ")\n"
            \o "2) Contexto: " \o payload["contexto_nombre"]
            \o " - Rol contextual: " \o payload["contexto_rol"] \o "\n"
            \o "3) Objetivo: " \o payload["objetivo"] \o "\n"
            \o "4) Entradas clave: " \o payload["entradas"] \o "\n"
            \o "5) Restricciones: " \o payload["restricciones"] \o "\n"
            \o "6) Formato de salida: " \o payload["formato_salida"] \o "\n"
            \o "7) Prioridad: " \o payload["prioridad"] \o "\n"
            \o "8) Criterios de calidad: Claridad, precision y accionabilidad.\n"
            \o "9) Instruccion final: Entrega una respuesta profesional y estructurada en espanol.\n"
            \o formatear_especializacion_agricola(payload))

\* base + extra, the exception of render_base passing through
Extend(base, extra) == IF base.ok THEN Ok(base.value \o extra) ELSE base

\* it.render_it
render_it(payload) ==
    Extend(render_base(payload),
           "\n[Extension IT]\n"
           \o "- Stack/entorno: " \o Get(payload, "stack", "No especificado") \o "\n"
           \o "- Nivel tecnico esperado: " \o Get(payload, "nivel_tecnico", "Senior") \o "\n"
           \o "- Consideraciones: seguridad, escalabilidad, mantenibilidad y pruebas.\n"
           \o "- Solicitud adicional: propone pasos de implementacion y riesgos tecnicos.\n")

\* ventas._contexto_agricola_ventas / gestion._contexto_agricola_negocio:
\* ", ".join(str(item) for item in especializaciones); a str is iterated
\* character by character.
RECURSIVE Chars(_)
Chars(s) == IF s = "" THEN <<>> ELSE <<Head(s)>> \o Chars(Tail(s))

Cultivos(payload) ==
    LET e == Get(payload, "especializacion_agricola", [list |-> <<>>])
    IN  Join(IF IsStr(e) THEN Chars(e.str) ELSE e.list, ", ")

contexto_agricola_ventas(payload) ==
    IF ~Truthy(Get(payload, "especializacion_agricola", [list |-> <<>>])) THEN ""
    ELSE "- Contexto agricola aplicado: adapta los argumentos comerciales, ejemplos de oferta y objeciones "
         \o "al mercado de " \o Cultivos(payload) \o ".\n"

contexto_agricola_negocio(payload) ==
    IF ~Truthy(Get(payload, "especializacion_agricola", [list |-> <<>>])) THEN ""
    ELSE "- Contexto de negocio agricola: prioriza recomendaciones operativas y ejemplos alineados con "
         \o "la gestion de " \o Cultivos(payload) \o ".\n"

\* ventas.render_ventas
render_ventas(payload) ==
    Extend(render_base(payload),
           "\n[Extension Ventas]\n"
           \o "- Segmento objetivo: " \o Get(payload, "segmento", "General") \o "\n"
           \o "- Propuesta de valor: " \o Get(payload, "propuesta_valor", "No especificada") \o "\n"
           \o contexto_agricola_ventas(payload)
           \o "- KPIs sugeridos: ratio de conversion, ticket medio, tiempo de cierre.\n"
           \o "- Solicitud adicional: redacta argumentos y objeciones con cierre persuasivo.\n")

\* contabilidad.render_contabilidad
render_contabilidad(payload) ==
    Extend(render_base(payload),
           "\n[Extension Contabilidad]\n"
           \o "- Marco normativo: " \o Get(payload, "normativa", "PGC/NIIF segun aplique") \o "\n"
           \o "- Periodo de analisis: " \o Get(payload, "periodo", "No especificado") \o "\n"
           \o "- Consideraciones: trazabilidad, conciliacion y cumplimiento fiscal.\n"
           \o "- Solicitud adicional: incluye asientos sugeridos y validaciones clave.\n")

\* gestion.render_gestion
render_gestion(payload) ==
    Extend(render_base(payload),
           "\n[Extension Gestion]\n"
           \o "- Area operativa: " \o Get(payload, "area_operativa", "No especificada") \o "\n"
           \o "- Horizonte temporal: " \o Get(payload, "horizonte", "Corto/medio plazo") \o "\n"
           \o contexto_agricola_negocio(payload)
           \o "- Consideraciones: eficiencia, coordinacion interareas y control de riesgos.\n"
           \o "- Solicitud adicional: plantea plan de accion, hitos y responsables.\n")

-----------------------------------------------------------------------------
(* storage.py: profiles and contexts *)

\* str.replace(old, new) for a one-character old
RECURSIVE Replace(_, _, _)
Replace(s, old, new) ==
    IF s = "" THEN ""
    ELSE (IF Head(s) = old THEN new ELSE Head(s)) \o Replace(Tail(s), old, new)

\* _normalizar_lista_texto; the lines of the text end with "\n" only.
normalizar_lista_texto(value) ==
    IF IsList(value) THEN StripNonEmpty(value.list)
    ELSE IF IsStr(value) THEN StripNonEmpty(Split(Replace(value.str, ",", "\n"), "\n"))
    ELSE <<>>

\* _normalizar_perfil
normalizar_perfil(profile) ==
    LET listas ==
            [herramientas |->
                [list |-> normalizar_lista_texto(
                            Get(profile, "herramientas", [list |-> <<>>]))],
             prioridades |->
                [list |-> normalizar_lista_texto(
                            Get(profile, "prioridades", [list |-> <<>>]))],
             especializacion_agricola |->
                [list |-> normalizar_lista_texto(
                            Get(profile, "especializacion_agricola", [list |-> <<>>]))]]
        n1 == listas @@ profile
        n2 == IF "rol_base" \notin DOMAIN n1 /\ "rol" \in DOMAIN n1
              THEN ("rol_base" :> n1["rol"]) @@ n1 ELSE n1
    IN  IF "rol" \notin DOMAIN n2 /\ "rol_base" \in DOMAIN n2
        THEN ("rol" :> n2["rol_base"]) @@ n2 ELSE n2

\* cargar_perfiles: [ok, value]
cargar_perfiles(file) ==
    LET r == read_json(file, <<>>)
        dicts == SelectSeq(r.value, IsDict)
    IN  IF r.ok THEN Ok([i \in 1..Len(dicts) |-> normalizar_perfil(dicts[i])])
        ELSE r

\* cargar_contextos: [ok, value]
cargar_contextos(file) == read_json(file, <<>>)

-----------------------------------------------------------------------------
(* motor.py *)

DIRECTRICES_TECNICAS_IT ==
    "### Directrices obligatorias de analisis tecnico\n\n"
    \o "- No asumir comportamiento de codigo no mostrado.\n"
    \o "- Senalar debilidades tecnicas detectadas.\n"
    \o "- Indicar riesgos y problemas potenciales.\n"
    \o "- Si faltan archivos o funciones para analisis completo,\n"
    \o "  solicitarlos explicitamente antes de proponer solucion final.\n"
    \o "- No validar decisiones por cortesia.\n"
    \o "- Mantener tono profesional, critico y tecnico.\n"
    \o "- No incluir elogios ni frases motivacionales.\n"

\* _normalizar_area without the strip
normalizar_area_lower_only(area) == Lower(area)

\* _normalizar_area
normalizar_area(area) == Lower(Strip(area))

\* The payload generar_prompt builds before it adds the keys of the area.
payload_base(datos, p, c) ==
    [perfil_nombre |-> Get(p, "nombre", "Usuario"),
     perfil_rol |-> Get(p, "rol", "Profesional"),
     contexto_nombre |-> Get(c, "nombre", "General"),
     contexto_rol |-> Get(c, "rol_contextual", "Asistente"),
     objetivo |-> Get(datos, "objetivo", ""),
     entradas |-> Get(datos, "entradas", ""),
     restricciones |-> Get(datos, "restricciones", ""),
     formato_salida |-> Get(datos, "formato_salida", ""),
     prioridad |-> Get(datos, "prioridad", "Media")]

\* payload.update(extra)
Update(payload, extra) == extra @@ payload

\* The template generar_prompt renders for the normalized area.
render_area(area, datos, p, c) ==
    IF area = "it"
    THEN render_it(Update(payload_base(datos, p, c),
            [stack |-> Get(datos, "stack", "Python 3.9+"),
             nivel_tecnico |-> Get(datos, "nivel_tecnico", "Senior")]))
    ELSE IF area = "ventas"
    THEN render_ventas(Update(payload_base(datos, p, c),
            [segmento |-> Get(datos, "segmento", "B2B"),
             propuesta_valor |-> Get(datos, "propuesta_valor", "")]))
    ELSE IF area = "contabilidad"
    THEN render_contabilidad(Update(payload_base(datos, p, c),
            [normativa |-> Get(datos, "normativa", "PGC"),
             periodo |-> Get(datos, "periodo", "")]))
    ELSE render_gestion(Update(payload_base(datos, p, c),
            [area_operativa |-> Get(datos, "area_operativa", "Operaciones"),
             horizonte |-> Get(datos, "horizonte", "Trimestral")]))

\* generar_prompt with the guidelines appended before the attachments
generar_prompt_directrices_primero(datos, p, c, paths, fs) ==
    LET area == normalizar_area(Get(datos, "area", ""))
        rendered == render_area(area, datos, p, c)
        leidos == leer_archivos(paths, MAX_CHARS_DEFAULT, fs)
        secciones_finales ==
            <<rendered.value>>
            \o (IF area = "it" THEN <<DIRECTRICES_TECNICAS_IT>> ELSE <<>>)
            \o (IF paths # <<>> THEN <<leidos.value>> ELSE <<>>)
    IN  IF ~rendered.ok THEN rendered
        ELSE IF paths # <<>> /\ ~leidos.ok THEN leidos
        ELSE Ok(Join(SelectSeq(secciones_finales, LAMBDA seccion : Strip(seccion) # ""),
                     "\n\n"))

\* generar_prompt(datos_tarea, perfil, contexto, adjuntos), the files as fs.
\* adjuntos = <<>> stands for None and for the empty list alike.
generar_prompt(datos, p, c, paths, fs) ==
    LET area == normalizar_area(Get(datos, "area", ""))
        rendered == render_area(area, datos, p, c)
        leidos == leer_archivos(paths, MAX_CHARS_DEFAULT, fs)
        secciones_finales ==
            <<rendered.value>>
            \o (IF paths # <<>> THEN <<leidos.value>> ELSE <<>>)
            \o (IF area = "it" THEN <<DIRECTRICES_TECNICAS_IT>> ELSE <<>>)
    IN  IF ~rendered.ok THEN rendered
        ELSE IF paths # <<>> /\ ~leidos.ok THEN leidos
        ELSE Ok(Join(SelectSeq(secciones_finales, LAMBDA seccion : Strip(seccion) # ""),
                     "\n\n"))

-----------------------------------------------------------------------------
(* ui.py: the operations of the front end that touch the task history, each *)
(* run to completion before the next one starts                             *)

AllIds == {generate_task_id(t) : t \in 0..MaxClock}

None == <<>>
Some(x) == <<x>>

\* _task_by_id: the first task of the cache with this id, None without one.
task_by_id(cache, id) ==
    LET idx == FirstIndex(cache, id)
    IN  IF idx = 0 THEN None ELSE Some(cache[idx])

Did(op, ret) == [op |-> op, ret |-> ret]

\* No call of the attachment reader has been made.
Idle == [fn |-> "none"]

\* No call of generar_prompt has been made.
EmptyDict == [k \in {} |-> ""]

MotorIdle ==
    /\ datos_tarea = EmptyDict
    /\ perfil = EmptyDict
    /\ contexto = EmptyDict
    /\ resultado = Idle
    /\ carga = EmptyDict

\* The executor of the front end: max_workers threads, all idle.
MAX_WORKERS == 2
Workers == 1..MAX_WORKERS
IdleWorker ==
    [pc |-> "idle", tarea |-> None, alias |-> FALSE, tareas |-> <<>>, text |-> <<>>,
     pos |-> 0]

PoolIdle ==
    /\ pool = [w \in Workers |-> IdleWorker]
    /\ cola = <<>>
    /\ terminados = <<>>

\* voice_input.py: VoiceInput after __init__. stream is None or the
\* InputStream, which delivers callbacks while it is active; a chunk is the
\* instant it was captured at and, in de, the field spoken to; n counts the
\* recordings started.
max_seconds == 120

VoiceInput ==
    [is_recording |-> FALSE, audio_chunks |-> <<>>, stream |-> None,
     recording_started_at |-> None, de |-> "", n |-> 0]

\* What the sound device answers to start_recording: a stream, no valid
\* microphone (check_input_settings raises), or no stream (InputStream or
\* start raises).
Microphones == {"ok", "no_mic", "no_stream"}

\* VoiceInput.start_recording at instant t, asked for by field f
start_recording_restarting(v, t, f, mic) ==
    IF mic = "no_mic" THEN [v |-> v, exc |-> "RuntimeError"]
    ELSE IF mic = "no_stream"
    THEN [v |-> [v EXCEPT !.audio_chunks = <<>>, !.stream = None,
                          !.is_recording = FALSE, !.recording_started_at = None],
          exc |-> "RuntimeError"]
    ELSE [v |-> [is_recording |-> TRUE, audio_chunks |-> <<>>,
                 stream |-> Some([active |-> TRUE]),
                 recording_started_at |-> Some(t), de |-> f, n |-> v.n + 1],
          exc |-> "none"]

start_recording(v, t, f, mic) ==
    IF v.is_recording THEN [v |-> v, exc |-> "none"]
    ELSE IF mic = "no_mic" THEN [v |-> v, exc |-> "RuntimeError"]
    ELSE IF mic = "no_stream"
    THEN [v |-> [v EXCEPT !.audio_chunks = <<>>, !.stream = None,
                          !.is_recording = FALSE, !.recording_started_at = None],
          exc |-> "RuntimeError"]
    ELSE [v |-> [is_recording |-> TRUE, audio_chunks |-> <<>>,
                 stream |-> Some([active |-> TRUE]),
                 recording_started_at |-> Some(t), de |-> f, n |-> v.n + 1],
          exc |-> "none"]

\* start_recording._callback at instant t: a status drops the frame, the cap
\* raises CallbackStop, which ends the stream's callbacks; else the frame is
\* appended.
callback_uncapped(v, t, status) ==
    IF status THEN v
    ELSE [v EXCEPT !.audio_chunks = Append(@, [at |-> t, de |-> v.de])]

callback(v, t, status) ==
    IF status THEN v
    ELSE IF v.recording_started_at # None
            /\ t - v.recording_started_at[1] >= max_seconds
    THEN [v EXCEPT !.stream = Some([active |-> FALSE])]
    ELSE [v EXCEPT !.audio_chunks = Append(@, [at |-> t, de |-> v.de])]

\* stop_recording as far as its finally clause: the check, stream.stop(),
\* stream.close(), and the three assignments.
stop_stream(v) ==
    IF ~v.is_recording \/ v.stream = None
    THEN [v |-> v, exc |-> "RuntimeError"]
    ELSE [v |-> [v EXCEPT !.stream = None, !.is_recording = FALSE,
                          !.recording_started_at = None],
          exc |-> "none"]

\* stop_recording under the lock: the chunks are joined and the list emptied.
take_audio(v) ==
    IF v.audio_chunks = <<>>
    THEN [v |-> v, exc |-> "RuntimeError", audio |-> <<>>]
    ELSE [v |-> [v EXCEPT !.audio_chunks = <<>>], exc |-> "none",
          audio |-> v.audio_chunks]

\* What the transcription API answers: the words, no words, or an error,
\* which transcribe turns into RuntimeError.
ApiAnswers == {"text", "empty", "error"}

\* VoiceInput.transcribe
transcribe(audio, api) ==
    IF api = "error" THEN [exc |-> "RuntimeError", text |-> <<>>]
    ELSE [exc |-> "none", text |-> IF api = "empty" THEN <<>> ELSE audio]

\* VoiceInput.stop_recording, from its call to its return or raise
stop_recording(v, api) ==
    LET s == stop_stream(v)
        a == take_audio(s.v)
        r == transcribe(a.audio, api)
    IN  IF s.exc # "none" THEN [v |-> s.v, exc |-> s.exc, text |-> <<>>]
        ELSE IF a.exc # "none" THEN [v |-> a.v, exc |-> a.exc, text |-> <<>>]
        ELSE [v |-> a.v, exc |-> r.exc, text |-> r.text]

\* widgets/dictation_field.py: a dictation field of the form and the prompt
\* box, which share the VoiceInput.
Fields == {"restricciones", "prompt_box"}

MicButton == [text |-> "mic", state |-> "normal"]

\* DictationField.__init__
DictationField == [is_transcribing |-> FALSE, button |-> MicButton, text |-> <<>>]

\* No _transcribe_worker thread of the field exists.
NoThread == [pc |-> "none", audio |-> <<>>, para |-> 0]

VoiceIdle ==
    /\ mono = 0
    /\ voice = VoiceInput
    /\ campos = [f \in Fields |-> DictationField]
    /\ hilos = [f \in Fields |-> NoThread]
    /\ bucle = <<>>

\* No loader has been called; the profile and context files are absent.
LoadIdle ==
    /\ perfiles_file = NoFile
    /\ contextos_file = NoFile
    /\ cargado = Idle

Init ==
    /\ historial_file = NoFile
    /\ now = 0
    /\ current_task = None
    /\ prompt_box = ""
    /\ history_cache = <<>>
    /\ last = Did("start", TRUE)
    /\ texto = "" /\ max_chars = 0 /\ adjuntos = <<>> /\ salida = Idle
    /\ MotorIdle
    /\ LoadIdle
    /\ PoolIdle
    /\ VoiceIdle

\* Time passes.
Tick ==
    /\ now < MaxClock
    /\ now' = now + 1
    /\ last' = Did("tick", TRUE)
    /\ UNCHANGED <<historial_file, current_task, prompt_box, history_cache, notUi, poolVars>>

\* generate_prompt past its validation, r being what generar_prompt ended
\* with: on RuntimeError showerror and return; any other exception leaves the
\* handler at the same point; else set_text(prompt) and a new Tarea.
generate_prompt_clearing(r, box, task, t) ==
    IF r.ok
    THEN [prompt_box |-> r.value,
          current_task |-> Some(Tarea(generate_task_id(t), r.value, t)),
          shown |-> "none"]
    ELSE [prompt_box |-> "", current_task |-> None, shown |-> "showerror"]

generate_prompt(r, box, task, t) ==
    IF r.ok
    THEN [prompt_box |-> r.value,
          current_task |-> Some(Tarea(generate_task_id(t), r.value, t)),
          shown |-> "none"]
    ELSE [prompt_box |-> box,
          current_task |-> task,
          shown |-> IF r.exc = "RuntimeError" THEN "showerror" ELSE "none"]

\* generate_prompt, the form valid and generar_prompt returning prompt p.
GeneratePrompt(p) ==
    /\ prompt_box' = generate_prompt(Ok(p), prompt_box, current_task, now).prompt_box
    /\ current_task' = generate_prompt(Ok(p), prompt_box, current_task, now).current_task
    /\ last' = Did("generate_prompt", TRUE)
    /\ UNCHANGED <<historial_file, now, history_cache, notUi, poolVars>>

\* The user types in the prompt box.
EditPrompt(p) ==
    /\ prompt_box' = p
    /\ last' = Did("edit", TRUE)
    /\ UNCHANGED <<historial_file, now, current_task, history_cache, notUi, poolVars>>

\* The task save_task submits to the executor.
TaskToSave ==
    IF current_task = None
    THEN Tarea(generate_task_id(now), prompt_box, now)
    ELSE [current_task[1] EXCEPT !.prompt_generado = prompt_box]

\* save_task, the worker's guardar_tarea and _poll_future's refresh.
SaveTask ==
    IF prompt_box = ""
    THEN /\ last' = Did("save_task", FALSE)
         /\ UNCHANGED <<historial_file, now, current_task, prompt_box, history_cache, notUi, poolVars>>
    ELSE /\ current_task' = Some(TaskToSave)
         /\ historial_file' = guardar_tarea(historial_file, TaskToSave, now)
         /\ history_cache' = listar_tareas(historial_file', now)
         /\ last' = [op |-> "save_task", ret |-> TRUE,
                     replaced |-> task_by_id(listar_tareas(historial_file, now),
                                             TaskToSave.id)]
         /\ UNCHANGED <<now, prompt_box, notUi, poolVars>>

\* show_history
ShowHistory ==
    /\ history_cache' = listar_tareas(historial_file, now)
    /\ last' = Did("show_history", TRUE)
    /\ UNCHANGED <<historial_file, now, current_task, prompt_box, notUi, poolVars>>

\* _history_view_prompt(task_id) on a row of the history window
HistoryViewPrompt(id) ==
    /\ task_by_id(history_cache, id) # None
    /\ current_task' = task_by_id(history_cache, id)
    /\ prompt_box' = task_by_id(history_cache, id)[1].prompt_generado
    /\ last' = Did("view", TRUE)
    /\ UNCHANGED <<historial_file, now, history_cache, notUi, poolVars>>

\* _history_clone_task writing the clone to the history at once
HistoryCloneTask_persisting(id) ==
    /\ task_by_id(history_cache, id) # None
    /\ LET source == task_by_id(history_cache, id)[1]
           clone == [source EXCEPT !.id = generate_task_id(now),
                                   !.created_at = iso_timestamp(now)]
       IN  /\ current_task' = Some(clone)
           /\ prompt_box' = clone.prompt_generado
           /\ historial_file' = guardar_tarea(historial_file, clone, now)
    /\ last' = Did("clone", TRUE)
    /\ UNCHANGED <<now, history_cache, notUi, poolVars>>

\* _history_clone_task(task_id)
HistoryCloneTask(id) ==
    /\ task_by_id(history_cache, id) # None
    /\ LET source == task_by_id(history_cache, id)[1]
           clone == [source EXCEPT !.id = generate_task_id(now),
                                   !.created_at = iso_timestamp(now)]
       IN  /\ current_task' = Some(clone)
           /\ prompt_box' = clone.prompt_generado
    /\ last' = Did("clone", TRUE)
    /\ UNCHANGED <<historial_file, now, history_cache, notUi, poolVars>>

\* _history_delete_task(task_id), confirmed by the user
HistoryDeleteTask(id) ==
    LET r == eliminar_tarea(historial_file, id, now)
    IN  /\ historial_file' = r.file
        /\ history_cache' = IF r.ret THEN listar_tareas(r.file, now) ELSE history_cache
        /\ last' = [op |-> "eliminar_tarea", ret |-> r.ret, id |-> id]
        /\ UNCHANGED <<now, current_task, prompt_box, notUi, poolVars>>

\* The process is killed inside _write_json of a save, after open("w") has
\* truncated the file and n tokens have reached it; the program starts again.
KilledInWrite(n) ==
    /\ prompt_box # ""
    /\ LET text == json_dump(guardar_tarea_payload(historial_file, TaskToSave, now))
       IN  /\ n < Len(text)
           /\ historial_file' = FileOf(SubSeq(text, 1, n))
    /\ current_task' = None
    /\ prompt_box' = ""
    /\ history_cache' = <<>>
    /\ last' = Did("killed", TRUE)
    /\ UNCHANGED <<now, notUi, poolVars>>

Next ==
    \/ Tick
    \/ \E p \in Prompts : GeneratePrompt(p)
    \/ \E p \in Prompts \cup {""} : EditPrompt(p)
    \/ SaveTask
    \/ ShowHistory
    \/ \E id \in AllIds : HistoryViewPrompt(id)
    \/ \E id \in AllIds : HistoryCloneTask(id)
    \/ \E id \in AllIds : HistoryDeleteTask(id)
    \/ \E n \in 0..MaxPrefix : KilledInWrite(n)

Spec == Init /\ [][Next]_vars

-----------------------------------------------------------------------------
(* Properties of the task history *)

\* What listar_tareas returns in this state and in the next one.
Stored == listar_tareas(historial_file, now)
StoredNext == listar_tareas(historial_file', now')

Ids(tareas) == {tareas[i].id : i \in 1..Len(tareas)}
Has(tareas, x) == \E i \in 1..Len(tareas) : tareas[i] = x
WithoutId(tareas, id) == {tareas[i] : i \in {j \in 1..Len(tareas) : tareas[j].id # id}}

\* C1: guardar_tarea is an upsert by id. A save of a task whose id is stored
\* keeps the number of stored records, leaves the saved task as the only
\* record of that id and keeps every record of another id; a save of a task
\* with a new id adds exactly that record.
C1_GuardarTareaUpsert ==
    [][(last'.op = "save_task" /\ last'.ret) =>
        LET tarea == current_task'[1]
        IN  /\ Has(StoredNext, tarea)
            /\ \A i \in 1..Len(StoredNext) :
                   StoredNext[i].id = tarea.id => StoredNext[i] = tarea
            /\ WithoutId(StoredNext, tarea.id) = WithoutId(Stored, tarea.id)
            /\ Len(StoredNext) =
                   IF tarea.id \in Ids(Stored) THEN Len(Stored) ELSE Len(Stored) + 1]_vars

\* Two tasks constructed in the same second got the same id; the second one
\* was saved over the first, beside a record of another id.
C1_Witness ==
    /\ last.op = "save_task" /\ last.ret
    /\ last.replaced # None
    /\ last.replaced[1].created_at # current_task[1].created_at
    /\ Len(Stored) = 2
    /\ Stored[1].id = current_task[1].id

SavedNow == last'.op = "save_task" /\ last'.ret

\* C19: created_at is set when the Tarea is constructed and no operation
\* changes it. Across every step a stored record keeps its created_at, but for
\* the record a save writes, whose created_at is that of the task saved; a
\* re-save of the current task leaves the task's created_at as it was, and a
\* load and save cycle at a later instant returns what was stored.
C19_CreatedAtImmutable ==
    [][LET antes == Stored
           despues == StoredNext
           guardada == current_task'[1]
       IN  /\ \A i \in 1..Len(antes) : \A j \in 1..Len(despues) :
                 (antes[i].id = despues[j].id
                     /\ ~(SavedNow /\ antes[i].id = guardada.id))
                   => despues[j].created_at = antes[i].created_at
           /\ SavedNow =>
                 /\ \A j \in 1..Len(despues) :
                       despues[j].id = guardada.id
                         => despues[j].created_at = guardada.created_at
                 /\ current_task # None
                       => guardada.created_at = current_task[1].created_at]_vars

\* The current task has been saved again with an edited prompt, after the
\* instant of its construction.
C19_Witness ==
    /\ last.op = "save_task" /\ last.ret
    /\ last.replaced # None
    /\ last.replaced[1].prompt_generado # current_task[1].prompt_generado
    /\ last.replaced[1].created_at = current_task[1].created_at
    /\ current_task[1].created_at < now
    /\ Len(Stored) = 2

\* C20: generating a prompt, viewing a task of the history and cloning one
\* leave the history file as it is; the file changes only in a step of a
\* save, whether it completes or is cut short, or of a delete.
C20_WorkingCopies ==
    [][/\ last'.op \in {"generate_prompt", "view", "clone", "edit", "show_history"}
             => historial_file' = historial_file
       /\ historial_file' # historial_file
             => last'.op \in {"save_task", "eliminar_tarea", "killed"}]_vars

\* A task of the history has been cloned and the clone is not stored.
C20_Witness ==
    /\ last.op = "clone"
    /\ Stored # <<>>
    /\ current_task # None
    /\ ~Has(Stored, current_task[1])
    /\ current_task[1].id \notin Ids(Stored)

IsDescending(tareas) ==
    \A i \in 1..Len(tareas) : \A j \in (i + 1)..Len(tareas) :
        ~StrLess(tareas[i].id, tareas[j].id)

\* The dicts of the history file, none when it is absent or no JSON document.
FileDicts ==
    IF historial_file.exists /\ WellFormed(historial_file.text)
    THEN json_load(historial_file.text) ELSE <<>>

\* C2: after any sequence of saves and deletes, listar_tareas returns the
\* stored records, each once, ordered by id descending.
C2_ListarTareasDescending ==
    /\ IsDescending(Stored)
    /\ IsDescending(history_cache)
    /\ Len(Stored) = Len(FileDicts)
    /\ \A i \in 1..Len(FileDicts) : Has(Stored, from_dict(FileDicts[i], now))

\* A record of a smaller id was saved after one of a greater id, and the
\* listing holds the greater id first.
C2_Witness ==
    /\ last.op = "save_task" /\ last.ret
    /\ Len(Stored) >= 2
    /\ current_task[1].id = Stored[Len(Stored)].id
    /\ StrLess(Stored[2].id, Stored[1].id)

\* C3: eliminar_tarea of an id that is not stored returns False and leaves
\* the file as it was; of a stored id it returns True, removes the records of
\* that id and keeps every other record.
C3_EliminarTarea ==
    [][last'.op = "eliminar_tarea" =>
        IF last'.id \in Ids(Stored)
        THEN /\ last'.ret = TRUE
             /\ last'.id \notin Ids(StoredNext)
             /\ StoredNext = SelectSeq(Stored, LAMBDA item : item.id # last'.id)
        ELSE /\ last'.ret = FALSE
             /\ historial_file' = historial_file]_vars

\* A delete reported not found while the history holds records.
C3_Witness ==
    /\ last.op = "eliminar_tarea"
    /\ last.ret = FALSE
    /\ Len(Stored) >= 1

\* C4: no two records of the persisted history share an id.
C4_UniqueIds ==
    /\ \A i, j \in 1..Len(FileDicts) :
          FileDicts[i]["id"] = FileDicts[j]["id"] => i = j
    /\ Cardinality(Ids(Stored)) = Len(Stored)

\* A task created in the second of a stored task, with the same id, was
\* saved: the history still holds one record of that id.
C4_Witness ==
    /\ last.op = "save_task" /\ last.ret
    /\ last.replaced # None
    /\ last.replaced[1].created_at < current_task[1].created_at
    /\ Len(FileDicts) >= 1

-----------------------------------------------------------------------------
(* The attachment reader, called on texts, limits and path lists drawn from *)
(* bounded sets                                                             *)

RECURSIVE Texts(_)
Texts(n) ==
    IF n = 0 THEN {""}
    ELSE Texts(n - 1) \cup {t \o c : t \in Texts(n - 1), c \in Alphabet}

PathLists == {<<>>} \cup {<<p>> : p \in Paths} \cup {<<p, q>> : p \in Paths, q \in Paths}

UiIdle ==
    /\ historial_file = NoFile
    /\ now = 0
    /\ current_task = None
    /\ prompt_box = ""
    /\ history_cache = <<>>
    /\ last = Did("start", TRUE)

InitAdjuntos ==
    /\ texto \in Texts(MaxLen)
    /\ max_chars \in (-1)..MaxChars
    /\ adjuntos \in PathLists
    /\ salida = Idle
    /\ UiIdle
    /\ MotorIdle
    /\ LoadIdle
    /\ PoolIdle
    /\ VoiceIdle

DividirEnBloques ==
    /\ salida' = [fn |-> "dividir_en_bloques", r |-> dividir_en_bloques(texto, max_chars)]
    /\ UNCHANGED <<texto, max_chars, adjuntos, notAdj>>

LeerArchivos ==
    /\ salida' = [fn |-> "leer_archivos",
                  r |-> leer_archivos(adjuntos, max_chars, FileSystem(texto))]
    /\ UNCHANGED <<texto, max_chars, adjuntos, notAdj>>

\* generar_prompt(datos_tarea, perfil, contexto, adjuntos) over the same files
GenerarPromptConAdjuntos ==
    /\ resultado' = [fn |-> "generar_prompt",
                     r |-> generar_prompt(datos_tarea, perfil, contexto, adjuntos,
                                          FileSystem(texto))]
    /\ UNCHANGED <<datos_tarea, perfil, contexto, carga, adjuntos, notMotor>>

NextAdjuntos ==
    \/ DividirEnBloques
    \/ LeerArchivos
    \/ GenerarPromptConAdjuntos

SpecAdjuntos == InitAdjuntos /\ [][NextAdjuntos]_vars

-----------------------------------------------------------------------------
(* Properties of the attachment reader *)

Dividido == salida.fn = "dividir_en_bloques"
Leido == salida.fn = "leer_archivos"

\* Every path names a regular file of a supported type whose text can be read.
Readable(paths) ==
    \A i \in 1..Len(paths) :
        /\ FileSystem(texto)[paths[i]].kind = "file"
        /\ validar_tipo_archivo(paths[i])
        /\ FileSystem(texto)[paths[i]].readable

\* C7: a text longer than max_chars > 0 is split into ceil(len/max_chars)
\* blocks whose concatenation, in order, is the text.
C7_SplitRoundTrip ==
    (Dividido /\ max_chars > 0 /\ Len(texto) > max_chars) =>
        /\ salida.r.ok
        /\ Len(salida.r.value) * max_chars >= Len(texto)
        /\ (Len(salida.r.value) - 1) * max_chars < Len(texto)
        /\ Join(salida.r.value, "") = texto

\* A text of two different characters whose length is no multiple of
\* max_chars has been split.
C7_Witness ==
    /\ Dividido /\ max_chars > 1 /\ Len(texto) > max_chars
    /\ Len(texto) % max_chars # 0
    /\ Head(texto) # CharAt(texto, Len(texto))
    /\ salida.r.ok

\* C8: a text no longer than max_chars > 0, the empty text included, comes
\* back as exactly one block equal to the text.
C8_SingleBlock ==
    (Dividido /\ max_chars > 0 /\ Len(texto) <= max_chars) =>
        /\ salida.r.ok
        /\ salida.r.value = <<texto>>

\* The empty text has been split.
C8_Witness ==
    /\ Dividido /\ max_chars > 0 /\ texto = ""
    /\ salida.r.ok

\* C9: with max_chars <= 0, dividir_en_bloques raises ValueError for every
\* text, and so does leer_archivos for every non-empty list of readable
\* files; neither returns blocks.
C9_InvalidMaxChars ==
    /\ (Dividido /\ max_chars <= 0) =>
          ~salida.r.ok /\ salida.r.exc = "ValueError"
    /\ (Leido /\ max_chars <= 0 /\ adjuntos # <<>> /\ Readable(adjuntos)) =>
          ~salida.r.ok /\ salida.r.exc = "ValueError"

\* leer_archivos was called with max_chars = 0 on two readable files.
C9_Witness ==
    /\ Leido /\ max_chars = 0
    /\ Len(adjuntos) = 2 /\ Readable(adjuntos)
    /\ ~salida.r.ok

-----------------------------------------------------------------------------
(* generar_prompt, called on task data, profiles, contexts and attachments *)
(* drawn from bounded sets                                                 *)

Areas == {"it", "IT", " it ", "It\n", "\tiT", "ventas", " VENTAS", "Ventas ",
          "contabilidad", "Contabilidad\n", "unknown", "", "gestion", "i t",
          "its", " "}

CamposBase == [objetivo |-> "Revisar API", entradas |-> "specs",
               restricciones |-> "ninguna", formato_salida |-> "lista"]

\* The task data: the area and the prioridad present or absent.
DatosTarea ==
    {a @@ pr @@ CamposBase :
        a \in {EmptyDict} \cup {[area |-> x] : x \in Areas},
        pr \in {EmptyDict, [prioridad |-> ""], [prioridad |-> "Alta"]}}

Perfiles == {[nombre |-> "Ana", rol |-> "CTO"], [nombre |-> "Ana"]}
Contextos == {[nombre |-> "Proyecto X", rol_contextual |-> "Asesor"], EmptyDict}
Adjuntos == {<<>>, <<"a.txt">>, <<"gone.txt">>, <<"B.MD", "d.pdf">>}

InitMotor ==
    /\ datos_tarea \in DatosTarea
    /\ perfil \in Perfiles
    /\ contexto \in Contextos
    /\ adjuntos \in Adjuntos
    /\ resultado = Idle
    /\ carga = EmptyDict
    /\ texto = "ab" /\ max_chars = MAX_CHARS_DEFAULT /\ salida = Idle
    /\ UiIdle
    /\ LoadIdle
    /\ PoolIdle
    /\ VoiceIdle

GenerarPrompt ==
    /\ resultado' = [fn |-> "generar_prompt",
                     r |-> generar_prompt(datos_tarea, perfil, contexto, adjuntos,
                                          FileSystem(texto))]
    /\ UNCHANGED <<datos_tarea, perfil, contexto, carga, adjuntos, notMotor>>

NextMotor ==
    \/ GenerarPrompt

SpecMotor == InitMotor /\ [][NextMotor]_vars

-----------------------------------------------------------------------------
(* Properties of the router *)

Generado == resultado.fn = "generar_prompt"

\* s holds sub as a substring
Contains(s, sub) ==
    \E i \in 1..(Len(s) - Len(sub) + 1) : SubSeq(s, i, i + Len(sub) - 1) = sub

Extensiones == {"[Extension IT]", "[Extension Ventas]",
                "[Extension Contabilidad]", "[Extension Gestion]"}

\* The extension the area string stands for: trimmed and lower-cased it is
\* one of the three names, or else it is the catch-all.
ExtensionFor(area) ==
    LET name == Lower(Strip(area))
    IN  CASE name = "it" -> "[Extension IT]"
          [] name = "ventas" -> "[Extension Ventas]"
          [] name = "contabilidad" -> "[Extension Contabilidad]"
          [] OTHER -> "[Extension Gestion]"

\* C10: the prompt holds the section of the extension the area stands for and
\* of no other one, whatever the area (absent, empty, unknown); the call
\* raises only what the attachment reader raises.
C10_AreaRouting ==
    Generado =>
        /\ (adjuntos = <<>> \/ Readable(adjuntos)) => resultado.r.ok
        /\ ~resultado.r.ok => resultado.r.exc = "RuntimeError"
        /\ resultado.r.ok =>
             \A e \in Extensiones :
                Contains(resultado.r.value, e)
                    <=> e = ExtensionFor(Get(datos_tarea, "area", ""))

\* An area written with capitals and surrounding whitespace was routed to IT.
C10_Witness ==
    /\ Generado /\ resultado.r.ok
    /\ "area" \in DOMAIN datos_tarea
    /\ datos_tarea["area"] \notin {"it", "IT"}
    /\ Contains(resultado.r.value, "[Extension IT]")

-----------------------------------------------------------------------------
(* Properties of the sections of the prompt *)

EndsWith(s, suffix) ==
    Len(s) >= Len(suffix) /\ SubSeq(s, Len(s) - Len(suffix) + 1, Len(s)) = suffix

RoutesToIt == ExtensionFor(Get(datos_tarea, "area", "")) = "[Extension IT]"

EncabezadoDirectrices == "### Directrices obligatorias de analisis tecnico"
EncabezadoAdjuntos == "## Archivos adjuntos para analisis"

\* The prompt without its last section, the guidelines.
AntesDeDirectrices ==
    SubSeq(resultado.r.value, 1,
           Len(resultado.r.value) - Len("\n\n" \o DIRECTRICES_TECNICAS_IT))

\* C11: a prompt routed to IT ends with the guidelines block as a section of
\* its own, after the attachment section when there are attachments; a prompt
\* routed elsewhere does not hold the block.
C11_DirectricesLast ==
    (Generado /\ resultado.r.ok) =>
        IF RoutesToIt
        THEN /\ EndsWith(resultado.r.value, "\n\n" \o DIRECTRICES_TECNICAS_IT)
             /\ ~Contains(AntesDeDirectrices, EncabezadoDirectrices)
             /\ adjuntos # <<>> => Contains(AntesDeDirectrices, EncabezadoAdjuntos)
        ELSE ~Contains(resultado.r.value, EncabezadoDirectrices)

\* An IT prompt with two attachments has been generated.
C11_Witness ==
    /\ Generado /\ resultado.r.ok
    /\ RoutesToIt
    /\ Len(adjuntos) = 2
    /\ EndsWith(resultado.r.value, DIRECTRICES_TECNICAS_IT)

\* The path is missing, is no regular file, or has an unsupported extension.
BadPath(p) == FileSystem(texto)[p].kind # "file" \/ ~validar_tipo_archivo(p)

HasBadPath == \E i \in 1..Len(adjuntos) : BadPath(adjuntos[i])

FirstBadPath ==
    CHOOSE i \in 1..Len(adjuntos) :
        BadPath(adjuntos[i]) /\ \A j \in 1..(i - 1) : ~BadPath(adjuntos[j])

\* The error of leer_archivos about the file named.
NamesFile(r, name) ==
    /\ r.exc = "RuntimeError"
    /\ r.about = name
    /\ r.msg \in {"No existe el archivo adjunto: ", "Tipo de archivo no soportado: "}

C13_JoinedAndTrimmed ==
    (Generado /\ resultado.r.ok) =>
        /\ resultado.r.value = Strip(resultado.r.value)
        /\ ~Contains(resultado.r.value, "\n\n\n")

\* C14: the prompt shows the prioridad supplied, and "Media" when the task
\* data has no prioridad or an empty one.
C14_PrioridadDefault ==
    (Generado /\ resultado.r.ok) =>
        Contains(resultado.r.value,
                 "7) Prioridad: "
                 \o (IF Get(datos_tarea, "prioridad", "") = "" THEN "Media"
                     ELSE datos_tarea["prioridad"])
                 \o "\n")


-----------------------------------------------------------------------------
(* The loaders of storage.py over files in every condition *)

\* What perfiles.json may hold: dicts with text or list fields, and an item
\* that is not a dict.
PerfilesGuardados ==
    <<[nombre |-> "Ana", rol |-> "CTO", herramientas |-> [str |-> "git, sql\n"]],
      [scalar |-> "x"],
      [nombre |-> "Luis", rol_base |-> "Dev", prioridades |-> [list |-> <<" a ", "">>]]>>

ContextosGuardados ==
    <<[nombre |-> "Sansebas", rol_contextual |-> "Asesor"],
      [nombre |-> "Campo"]>>

TareasGuardadas ==
    <<to_dict(Tarea(generate_task_id(0), "p1", 0)),
      [id |-> generate_task_id(TicksPerSecond), prompt_generado |-> "p2"]>>

\* The conditions of a file that should hold the list: absent; cut short at
\* any token, as open("w") and an unfinished json.dump leave it; complete.
Conditions(lista) ==
    {NoFile, write_json(<<>>)}
        \cup {FileOf(SubSeq(json_dump(lista), 1, n)) : n \in 0..(Len(lista) + 2)}

InitLoad ==
    /\ perfiles_file \in Conditions(PerfilesGuardados)
    /\ contextos_file \in Conditions(ContextosGuardados)
    /\ historial_file \in Conditions(TareasGuardadas)
    /\ cargado = Idle
    /\ now = 0 /\ current_task = None /\ prompt_box = "" /\ history_cache = <<>>
    /\ last = Did("init", TRUE)
    /\ texto = "" /\ max_chars = 1 /\ adjuntos = <<>> /\ salida = Idle
    /\ MotorIdle
    /\ PoolIdle
    /\ VoiceIdle

CargarPerfiles ==
    /\ cargado' = [fn |-> "cargar_perfiles", r |-> cargar_perfiles(perfiles_file)]
    /\ UNCHANGED <<perfiles_file, contextos_file, historial_file, notLoad>>

CargarContextos ==
    /\ cargado' = [fn |-> "cargar_contextos", r |-> cargar_contextos(contextos_file)]
    /\ UNCHANGED <<perfiles_file, contextos_file, historial_file, notLoad>>

ListarTareas ==
    /\ cargado' = [fn |-> "listar_tareas", r |-> try_listar_tareas(historial_file, now)]
    /\ UNCHANGED <<perfiles_file, contextos_file, historial_file, notLoad>>

NextLoad ==
    \/ CargarPerfiles
    \/ CargarContextos
    \/ ListarTareas

SpecLoad == InitLoad /\ [][NextLoad]_vars

\* The file is absent, or its content is not a JSON document.
MissingOrMalformed(file) == ~file.exists \/ ~WellFormed(file.text)

\* The file the last loader read.
FileRead ==
    CASE cargado.fn = "cargar_perfiles" -> perfiles_file
      [] cargado.fn = "cargar_contextos" -> contextos_file
      [] cargado.fn = "listar_tareas" -> historial_file

-----------------------------------------------------------------------------
(* Saving through the executor: guardar_tarea step by step on a worker *)

MaxPending == 2

\* A write of one token at position i of a file opened with "w"; a position
\* past the end leaves a hole of NUL bytes.
WriteAt(text, i, tok) ==
    [j \in 1..(IF i > Len(text) THEN i ELSE Len(text)) |->
        IF j = i THEN tok ELSE IF j <= Len(text) THEN text[j] ELSE TokNul]

\* The calls that hold the object current_task refers to see the assignment
\* to its prompt_generado until they have serialised it.
MutatedCall(c, p) ==
    IF c.alias THEN [c EXCEPT !.tarea = [c.tarea EXCEPT !.prompt_generado = p]] ELSE c

MutatedWorker(k, p) ==
    IF k.alias /\ k.pc \in {"read", "open"}
    THEN [k EXCEPT !.tarea = Some([k.tarea[1] EXCEPT !.prompt_generado = p])]
    ELSE k

\* current_task is bound to another object: no call holds it.
Unaliased(calls) == [i \in DOMAIN calls |-> [calls[i] EXCEPT !.alias = FALSE]]

Pending ==
    Len(cola) + Cardinality({w \in Workers : pool[w].pc # "idle"}) + Len(terminados)

\* save_task: executor.submit(guardar_tarea, self.current_task)
SubmitSave ==
    IF prompt_box = ""
    THEN /\ last' = Did("save_task", FALSE)
         /\ UNCHANGED <<historial_file, now, current_task, prompt_box, history_cache,
                        notUi, poolVars>>
    ELSE /\ Pending < MaxPending
         /\ current_task' = Some(TaskToSave)
         /\ cola' = Append([i \in DOMAIN cola |-> MutatedCall(cola[i], prompt_box)],
                           [tarea |-> TaskToSave, alias |-> TRUE])
         /\ pool' = [w \in Workers |-> MutatedWorker(pool[w], prompt_box)]
         /\ last' = Did("save_task", TRUE)
         /\ UNCHANGED <<historial_file, now, prompt_box, history_cache, terminados, notUi>>

\* generate_prompt while the executor works
PoolGeneratePrompt(p) ==
    /\ prompt_box' = generate_prompt(Ok(p), prompt_box, current_task, now).prompt_box
    /\ current_task' = generate_prompt(Ok(p), prompt_box, current_task, now).current_task
    /\ cola' = Unaliased(cola)
    /\ pool' = Unaliased(pool)
    /\ last' = Did("generate_prompt", TRUE)
    /\ UNCHANGED <<historial_file, now, history_cache, terminados, notUi>>

\* A worker thread takes the next call of the queue.
WorkerTake(w) ==
    /\ pool[w].pc = "idle"
    /\ cola # <<>>
    /\ pool' = [pool EXCEPT ![w] = [IdleWorker EXCEPT !.pc = "read",
                                                      !.tarea = Some(Head(cola).tarea),
                                                      !.alias = Head(cola).alias]]
    /\ cola' = Tail(cola)
    /\ UNCHANGED <<uiVars, terminados, notUi>>

\* guardar_tarea: tareas = listar_tareas()
WorkerRead(w) ==
    /\ pool[w].pc = "read"
    /\ pool' = [pool EXCEPT ![w].pc = "open",
                            ![w].tareas = listar_tareas(historial_file, now)]
    /\ UNCHANGED <<uiVars, cola, terminados, notUi>>

\* guardar_tarea: the loop, the sort, to_dict, and _write_json as far as
\* path.open("w"), which truncates the file.
WorkerOpen(w) ==
    /\ pool[w].pc = "open"
    /\ pool' = [pool EXCEPT ![w].pc = "write",
                            ![w].alias = FALSE,
                            ![w].text = json_dump(guardar_tarea_lista(pool[w].tareas,
                                                                      pool[w].tarea[1])),
                            ![w].pos = 0]
    /\ historial_file' = FileOf(<<>>)
    /\ UNCHANGED <<now, current_task, prompt_box, history_cache, last, cola, terminados,
                   notUi>>

\* _write_json: json.dump sends the next token to the file.
WorkerWrite(w) ==
    /\ pool[w].pc = "write"
    /\ pool[w].pos < Len(pool[w].text)
    /\ historial_file' = FileOf(WriteAt(historial_file.text, pool[w].pos + 1,
                                        pool[w].text[pool[w].pos + 1]))
    /\ pool' = [pool EXCEPT ![w].pos = @ + 1]
    /\ UNCHANGED <<now, current_task, prompt_box, history_cache, last, cola, terminados,
                   notUi>>

\* _write_json: the with-block closes the file; the future is done.
WorkerClose(w) ==
    /\ pool[w].pc = "write"
    /\ pool[w].pos = Len(pool[w].text)
    /\ pool' = [pool EXCEPT ![w] = IdleWorker]
    /\ terminados' = Append(terminados, [ok |-> TRUE])
    /\ UNCHANGED <<uiVars, cola, notUi>>

\* _poll_future: future.result() returns and showinfo follows the refresh, or
\* it raises; the except clause names RuntimeError alone and shows showerror,
\* any other exception leaves the callback with no message box.
Notification(done) ==
    IF done.ok THEN "showinfo"
    ELSE IF done.exc = "RuntimeError" THEN "showerror" ELSE "none"

\* _poll_future once its future is done
PollFuture ==
    /\ terminados # <<>>
    /\ terminados' = Tail(terminados)
    /\ IF Head(terminados).ok
       THEN history_cache' = listar_tareas(historial_file, now)
       ELSE UNCHANGED history_cache
    /\ last' = [op |-> "poll_future", ret |-> Head(terminados).ok,
                shown |-> Notification(Head(terminados))]
    /\ UNCHANGED <<historial_file, now, current_task, prompt_box, pool, cola, notUi>>

\* The process dies while a worker is inside _write_json, and is started
\* again: __init__ ends with _refresh_history().
Crash ==
    /\ \E w \in Workers : pool[w].pc = "write"
    /\ pool' = [w \in Workers |-> IdleWorker]
    /\ cola' = <<>>
    /\ terminados' = <<>>
    /\ current_task' = None
    /\ prompt_box' = ""
    /\ history_cache' = listar_tareas(historial_file, now)
    /\ last' = Did("start", TRUE)
    /\ UNCHANGED <<historial_file, now, notUi>>

\* The steps of the front end and of its workers within one instant of the
\* clock.
NextPool ==
    \/ \E p \in Prompts : PoolGeneratePrompt(p)
    \/ \E p \in Prompts \cup {""} : EditPrompt(p)
    \/ SubmitSave
    \/ ShowHistory
    \/ \E w \in Workers : WorkerTake(w)
    \/ \E w \in Workers : WorkerRead(w)
    \/ \E w \in Workers : WorkerOpen(w)
    \/ \E w \in Workers : WorkerWrite(w)
    \/ \E w \in Workers : WorkerClose(w)
    \/ PollFuture
    \/ Crash

SpecPool == Init /\ [][NextPool]_vars

\* A worker is the only one at work and is inside _write_json, saving over a
\* history that held records.
SavingAlone(w) ==
    /\ pool[w].pc = "write"
    /\ pool[w].tareas # <<>>
    /\ \A v \in Workers \ {w} : pool[v].pc = "idle"

\* C5: at every point of a save the history file holds the complete previous
\* collection or the complete new one, never an empty or a partial one.
C5_AtomicSave ==
    \A w \in Workers :
        SavingAlone(w) =>
            /\ historial_file.exists
            /\ WellFormed(historial_file.text)
            /\ json_load(historial_file.text)
                   \in {[i \in 1..Len(pool[w].tareas) |-> to_dict(pool[w].tareas[i])],
                        json_load(pool[w].text)}

\* C21: at most one save of a given task record is in flight at a time, and
\* no two running saves are inside guardar_tarea, between its read of the
\* history file and the end of its write, at the same time.
C21_OneWriterInFlight ==
    /\ \A i, j \in 1..Len(cola) : cola[i].tarea.id = cola[j].tarea.id => i = j
    /\ \A i \in 1..Len(cola) : \A w \in Workers :
           pool[w].pc # "idle" => pool[w].tarea[1].id # cola[i].tarea.id
    /\ \A v, w \in Workers :
           pool[v].pc # "idle" /\ pool[w].pc # "idle" => v = w

-----------------------------------------------------------------------------
(* Saves, exports and deletions that overlap, and futures that fail *)

\* The call export_pdf submits carries no task.
ExportCall == [tarea |-> None, alias |-> FALSE]

IsSave(w) == pool[w].tarea # Some(None)

\* The ids of the saves submitted and not completed, but for worker w's.
InFlightBut(w) ==
    {cola[i].tarea.id : i \in {j \in 1..Len(cola) : cola[j] # ExportCall}}
        \cup {pool[v].tarea[1].id :
                  v \in {u \in Workers \ {w} : pool[u].pc # "idle" /\ IsSave(u)}}

\* The future of worker w is done: with its result, or with the exception
\* the call raised. id and junto record which save it was and which saves
\* were in flight next to it.
Done(w, fn, exc) ==
    [ok |-> exc = "none", exc |-> exc, fn |-> fn,
     id |-> IF IsSave(w) THEN pool[w].tarea[1].id ELSE "",
     junto |-> IF IsSave(w) THEN InFlightBut(w) ELSE {}]

\* export_pdf: executor.submit(export_prompt_to_pdf, ...), a file name chosen
ExportPdf ==
    IF prompt_box = ""
    THEN /\ last' = Did("export_pdf", FALSE)
         /\ UNCHANGED <<historial_file, now, current_task, prompt_box, history_cache,
                        notUi, poolVars>>
    ELSE /\ Pending < MaxPending
         /\ cola' = Append(cola, ExportCall)
         /\ last' = Did("export_pdf", TRUE)
         /\ UNCHANGED <<historial_file, now, current_task, prompt_box, history_cache,
                        pool, terminados, notUi>>

\* What export_prompt_to_pdf ends with: the path, RuntimeError without
\* ReportLab, OSError from mkdir or from doc.build writing the file.
ExportOutcomes == {"none", "RuntimeError", "OSError"}

\* export_prompt_to_pdf on a worker
WorkerExport(w, exc) ==
    /\ pool[w].pc = "read"
    /\ ~IsSave(w)
    /\ pool' = [pool EXCEPT ![w] = IdleWorker]
    /\ terminados' = Append(terminados, Done(w, "export_prompt_to_pdf", exc))
    /\ UNCHANGED <<uiVars, cola, notUi>>

\* What _write_json ends with: None, or OSError from path.open("w") on a
\* file that cannot be opened for writing.
SaveOutcomes == {"none", "OSError"}

\* guardar_tarea after its read: the loop, the sort and _write_json, which
\* writes the whole document or raises at open and leaves the file alone.
WorkerGuardar(w, exc) ==
    /\ pool[w].pc = "open"
    /\ historial_file' =
           IF exc = "none"
           THEN write_json(guardar_tarea_lista(pool[w].tareas, pool[w].tarea[1]))
           ELSE historial_file
    /\ pool' = [pool EXCEPT ![w] = IdleWorker]
    /\ terminados' = Append(terminados, Done(w, "guardar_tarea", exc))
    /\ UNCHANGED <<now, current_task, prompt_box, history_cache, last, cola, notUi>>

\* The clock reaches the next second, in which generate_task_id gives
\* another id.
NextSecond ==
    /\ now < TicksPerSecond
    /\ now' = TicksPerSecond
    /\ last' = Did("tick", TRUE)
    /\ UNCHANGED <<historial_file, current_task, prompt_box, history_cache, notUi, poolVars>>

\* Attachment lists generar_prompt cannot read, and the form they go with.
BadAdjuntos == {<<"gone.txt">>, <<"c.exe">>, <<"a.txt", "dir.txt">>}
FormData == [area |-> "gestion"] @@ CamposBase

\* What generar_prompt ends with over these attachments.
FailedGenerations ==
    {generar_prompt(FormData, [nombre |-> "Ana", rol |-> "CTO"], [nombre |-> "General"],
                    paths, FileSystem("a")) : paths \in BadAdjuntos}

\* generate_prompt with attachments that make generar_prompt raise r
GeneratePromptRaises(r) ==
    LET g == generate_prompt(r, prompt_box, current_task, now)
    IN  /\ ~r.ok
        /\ prompt_box' = g.prompt_box
        /\ current_task' = g.current_task
        /\ cola' = IF r.ok THEN Unaliased(cola) ELSE cola
        /\ pool' = IF r.ok THEN Unaliased(pool) ELSE pool
        /\ last' = [op |-> "generate_prompt", ret |-> r.ok, shown |-> g.shown]
        /\ UNCHANGED <<historial_file, now, history_cache, terminados, notUi>>

\* The rows of the history window are those of the cache.
InWindow(id) == task_by_id(history_cache, id) # None

NextFutures ==
    \/ NextSecond
    \/ PoolGeneratePrompt("p1")
    \/ \E r \in FailedGenerations : GeneratePromptRaises(r)
    \/ SubmitSave
    \/ ExportPdf
    \/ \E id \in AllIds : InWindow(id) /\ HistoryDeleteTask(id)
    \/ \E w \in Workers : WorkerTake(w)
    \/ \E w \in Workers : IsSave(w) /\ WorkerRead(w)
    \/ \E w \in Workers : \E exc \in SaveOutcomes : WorkerGuardar(w, exc)
    \/ \E w \in Workers : \E exc \in ExportOutcomes : WorkerExport(w, exc)
    \/ PollFuture

SpecFutures == Init /\ [][NextFutures]_vars

\* C23: the step of a generation that fails leaves the prompt box, the current task,
\* the persisted history and the history cache exactly as before the attempt;
\* no Tarea comes from it.
C23_FailedGenerationAborts ==
    [][last' # last /\ last'.op = "generate_prompt" /\ ~last'.ret =>
           /\ prompt_box' = prompt_box
           /\ current_task' = current_task
           /\ historial_file' = historial_file
           /\ history_cache' = history_cache
           /\ cola' = cola /\ pool' = pool]_vars

\* A generation has just failed over a prompt, a current task and a stored
\* history.
C23_Witness ==
    /\ last.op = "generate_prompt" /\ ~last.ret /\ last.shown = "showerror"
    /\ prompt_box # ""
    /\ current_task # None
    /\ Stored # <<>>

\* _poll_future runs on the future at the head of the finished ones.
Polled == terminados # <<>> /\ terminados' = Tail(terminados) /\ last'.op = "poll_future"

\* C22: when _poll_future meets a save or an export that failed, whatever
\* the failure, it shows an error notification and no success message, and
\* it leaves the current task and the prompt text as they were.
C22_FailureReported ==
    [][Polled /\ ~Head(terminados).ok =>
           /\ last'.shown = "showerror"
           /\ current_task' = current_task
           /\ prompt_box' = prompt_box]_vars

\* No save is waiting or running.
NoSaveInFlight ==
    /\ \A i \in 1..Len(cola) : cola[i] = ExportCall
    /\ \A w \in Workers : pool[w].pc # "idle" => ~IsSave(w)

\* C27: once two saves of tasks with different ids that were in flight at
\* the same time have both completed, the persisted history holds both tasks.
C27_BothSavesKept ==
    NoSaveInFlight =>
        \A i, j \in 1..Len(terminados) :
            /\ terminados[i].fn = "guardar_tarea" /\ terminados[i].ok
            /\ terminados[j].fn = "guardar_tarea" /\ terminados[j].ok
            /\ terminados[i].id # terminados[j].id
            /\ terminados[j].id \in terminados[i].junto
            => {terminados[i].id, terminados[j].id} \subseteq Ids(Stored)

\* The last thing the user did was to delete from the history window the
\* task of this id, which no save in flight and no finished future carries.
DeletedDuringSave(w, id) ==
    /\ last = [op |-> "eliminar_tarea", ret |-> TRUE, id |-> id]
    /\ pool[w].pc = "open"
    /\ pool[w].tarea[1].id # id
    /\ id \notin InFlightBut(w)
    /\ \A i \in 1..Len(terminados) : terminados[i].id # id

\* C28: when a save that was in flight while another task was deleted from
\* the history window completes, the deleted task is absent from the
\* persisted history and the saved task is present.
C28_DeleteKept ==
    [][\A w \in Workers : \A id \in AllIds :
           /\ DeletedDuringSave(w, id)
           /\ terminados' = Append(terminados, Done(w, "guardar_tarea", "none"))
           => /\ id \notin Ids(StoredNext)
              /\ pool[w].tarea[1].id \in Ids(StoredNext)]_vars


-----------------------------------------------------------------------------
(* The templates of plantillas applied to payloads of every shape *)

MaxMissing == 2

CargaCompleta ==
    [perfil_nombre |-> "Ana", perfil_rol |-> "CTO", contexto_nombre |-> "Proyecto X",
     contexto_rol |-> "Asesor", objetivo |-> "Revisar API", entradas |-> "specs",
     restricciones |-> "ninguna", formato_salida |-> "lista", prioridad |-> "Alta"]

\* especializacion_agricola absent, a list, or a delimited string
Especializaciones ==
    {EmptyDict}
    \cup {[especializacion_agricola |-> [list |-> l]] :
            l \in {<<>>, <<"trigo", "maiz">>, <<" olivo ", "">>}}
    \cup {[especializacion_agricola |-> [str |-> t]] :
            t \in {"", "trigo", "trigo, maiz", "trigo\nmaiz", " , "}}

Without(f, keys) == [k \in (DOMAIN f) \ keys |-> f[k]]

RequiredKeySet == {RequiredKeys[i] : i \in 1..Len(RequiredKeys)}

Cargas ==
    {Without(e @@ CargaCompleta, missing) :
        e \in Especializaciones,
        missing \in {ks \in SUBSET RequiredKeySet : Cardinality(ks) <= MaxMissing}}

InitPlantillas ==
    /\ carga \in Cargas
    /\ resultado = Idle
    /\ datos_tarea = EmptyDict /\ perfil = EmptyDict /\ contexto = EmptyDict
    /\ texto = "" /\ max_chars = 1 /\ adjuntos = <<>> /\ salida = Idle
    /\ UiIdle
    /\ LoadIdle
    /\ PoolIdle
    /\ VoiceIdle

Rendered(fn, r) ==
    /\ resultado' = [fn |-> fn, r |-> r]
    /\ UNCHANGED <<datos_tarea, perfil, contexto, carga, adjuntos, notMotor>>

RenderBase == Rendered("render_base", render_base(carga))
RenderIt == Rendered("render_it", render_it(carga))
RenderVentas == Rendered("render_ventas", render_ventas(carga))
RenderContabilidad == Rendered("render_contabilidad", render_contabilidad(carga))
RenderGestion == Rendered("render_gestion", render_gestion(carga))

NextPlantillas ==
    \/ RenderBase
    \/ RenderIt
    \/ RenderVentas
    \/ RenderContabilidad
    \/ RenderGestion

SpecPlantillas == InitPlantillas /\ [][NextPlantillas]_vars

MissingKeys == RequiredKeySet \ DOMAIN carga

\* C12: render_base on a payload that lacks a required key raises the
\* missing-key error and returns no text; the error names a key the payload
\* lacks, the absent key when there is only one.
C12_MissingFieldNamed ==
    (resultado.fn = "render_base" /\ MissingKeys # {}) =>
        /\ ~resultado.r.ok
        /\ "value" \notin DOMAIN resultado.r
        /\ resultado.r.exc = "KeyError"
        /\ resultado.r.msg \in MissingKeys

\* render_base has been applied to a payload that lacks only prioridad.
C12_Witness ==
    /\ resultado.fn = "render_base"
    /\ MissingKeys = {"prioridad"}
    /\ resultado.r.exc = "KeyError"
    /\ resultado.r.msg = "prioridad"


EspecializacionDe(payload) == Get(payload, "especializacion_agricola", [list |-> <<>>])

\* The normalization of a specialization value the claims describe: the items
\* of a list; the fragments of a string between commas and newlines, trimmed,
\* the empty ones discarded.
ItemsNormalizados(e) ==
    IF IsList(e) THEN e.list
    ELSE StripNonEmpty(Split(Replace(e.str, ",", "\n"), "\n"))

Punto10 == "10) Este perfil esta especializado en los siguientes cultivos agricolas: "

\* C16: render_base ends with the 10th point, listing the normalized items,
\* when the specialization has items, and has no 10th point otherwise.
C16_EspecializacionNormalizada ==
    (resultado.fn = "render_base" /\ resultado.r.ok) =>
        IF ItemsNormalizados(EspecializacionDe(carga)) = <<>>
        THEN ~Contains(resultado.r.value, Punto10)
        ELSE EndsWith(resultado.r.value,
                      Punto10 \o Join(ItemsNormalizados(EspecializacionDe(carga)), ", ")
                      \o ".\n")

LineaVentas == "al mercado de "
LineaGestion == "la gestion de "

\* C17: render_ventas and render_gestion hold their agricultural line exactly
\* when the base part holds the 10th point, and the line names the items the
\* 10th point names, in the same order.
C17_MismaNormalizacion ==
    (resultado.fn \in {"render_ventas", "render_gestion"} /\ resultado.r.ok) =>
        LET linea == IF resultado.fn = "render_ventas" THEN LineaVentas ELSE LineaGestion
            items == Join(especializaciones_base(carga), ", ")
        IN  IF especializaciones_base(carga) = <<>>
            THEN ~Contains(resultado.r.value, linea)
            ELSE /\ Contains(resultado.r.value, Punto10 \o items \o ".\n")
                 /\ Contains(resultado.r.value, linea \o items \o ".\n")


-----------------------------------------------------------------------------
(* ui.py and storage.py: creating and editing profiles and contexts *)

MaxRegistros == 3

Nombres == {"Ana", "Luis"}
Roles == {"CTO", "Asesor"}

\* storage.insertar_registro_json: the file afterwards
insertar_registro_json(file, payload) ==
    write_json(Append(read_json(file, <<>>).value, payload))

\* The first index of data whose item has this nombre, 0 without one.
IndexOfNombre(data, nombre) ==
    LET hits == {i \in 1..Len(data) : Get(data[i], "nombre", None) = nombre}
    IN  IF hits = {} THEN 0 ELSE CHOOSE i \in hits : \A j \in hits : i <= j

\* storage.actualizar_registro_json: what it returns and the file afterwards
actualizar_registro_json(file, nombre, payload) ==
    LET data == read_json(file, <<>>).value
        idx == IndexOfNombre(data, nombre)
    IN  IF idx = 0 THEN [ret |-> FALSE, file |-> file]
        ELSE [ret |-> TRUE, file |-> write_json([data EXCEPT ![idx] = payload])]

\* storage.guardar_perfiles / guardar_contextos
guardar_perfiles(perfiles) ==
    write_json([i \in 1..Len(perfiles) |-> normalizar_perfil(perfiles[i])])

guardar_contextos(contextos) == write_json(contextos)

\* ProfileEditorDialog._save / ContextEditorDialog._save with a nombre and a
\* role typed in and the other fields left empty
ProfileEditorResult(nombre, rol) ==
    [nombre |-> nombre, rol_base |-> rol, empresa |-> "", ubicacion |-> "",
     herramientas |-> [list |-> <<>>], estilo |-> "", nivel_tecnico |-> "",
     prioridades |-> [list |-> <<>>], rol |-> rol]

ContextEditorResult(nombre, rol) ==
    [nombre |-> nombre, rol_contextual |-> rol,
     enfoque |-> [list |-> <<>>], no_hacer |-> [list |-> <<>>]]

\* _selected_item(collection, name)
selected_item(collection, name) ==
    LET idx == IndexOfNombre(collection, name)
    IN  IF idx = 0 THEN None ELSE Some(collection[idx])

\* [item for item in collection if item.get("nombre") != original_name]
OtherThan(collection, original_name) ==
    SelectSeq(collection, LAMBDA item : Get(item, "nombre", None) # original_name)

\* The body of edit_profile / edit_context once the record named selected has
\* been chosen in the collection loaded and the dialog has returned updated.
edit_registro(file, collection, selected, updated, perfiles) ==
    LET original_name == Get(selected_item(collection, selected)[1], "nombre", "")
        others == Append(OtherThan(collection, original_name), updated)
    IN  IF original_name # updated.nombre
        THEN (IF perfiles THEN guardar_perfiles(others) ELSE guardar_contextos(others))
        ELSE actualizar_registro_json(file, original_name, updated).file

NombresDe(collection) == {Get(collection[i], "nombre", "") : i \in 1..Len(collection)}

InitRegistros ==
    /\ perfiles_file = NoFile
    /\ contextos_file = NoFile
    /\ cargado = Idle
    /\ UiIdle
    /\ texto = "" /\ max_chars = 1 /\ adjuntos = <<>> /\ salida = Idle
    /\ MotorIdle
    /\ PoolIdle
    /\ VoiceIdle

NewProfile(nombre, rol) ==
    /\ Len(read_json(perfiles_file, <<>>).value) < MaxRegistros
    /\ perfiles_file' = insertar_registro_json(perfiles_file,
                                               ProfileEditorResult(nombre, rol))
    /\ UNCHANGED <<contextos_file, cargado, historial_file, notLoad>>

EditProfile(selected, nombre, rol) ==
    LET perfiles == cargar_perfiles(perfiles_file).value
    IN  /\ selected \in NombresDe(perfiles)
        /\ perfiles_file' = edit_registro(perfiles_file, perfiles, selected,
                                          ProfileEditorResult(nombre, rol), TRUE)
        /\ UNCHANGED <<contextos_file, cargado, historial_file, notLoad>>

NewContext(nombre, rol) ==
    /\ Len(read_json(contextos_file, <<>>).value) < MaxRegistros
    /\ contextos_file' = insertar_registro_json(contextos_file,
                                                ContextEditorResult(nombre, rol))
    /\ UNCHANGED <<perfiles_file, cargado, historial_file, notLoad>>

EditContext(selected, nombre, rol) ==
    LET contextos == cargar_contextos(contextos_file).value
    IN  /\ selected \in NombresDe(contextos)
        /\ contextos_file' = edit_registro(contextos_file, contextos, selected,
                                           ContextEditorResult(nombre, rol), FALSE)
        /\ UNCHANGED <<perfiles_file, cargado, historial_file, notLoad>>

NextRegistros ==
    \/ \E n \in Nombres, r \in Roles : NewProfile(n, r)
    \/ \E sel \in Nombres, n \in Nombres, r \in Roles : EditProfile(sel, n, r)
    \/ \E n \in Nombres, r \in Roles : NewContext(n, r)
    \/ \E sel \in Nombres, n \in Nombres, r \in Roles : EditContext(sel, n, r)

SpecRegistros == InitRegistros /\ [][NextRegistros]_vars

UniqueNombres(file) ==
    LET data == read_json(file, <<>>).value
    IN  \A i, j \in 1..Len(data) :
            Get(data[i], "nombre", "") = Get(data[j], "nombre", "") => i = j

\* C18: no two profiles stored have the same nombre, and no two contexts.
C18_UniqueNombres ==
    /\ UniqueNombres(perfiles_file)
    /\ UniqueNombres(contextos_file)

-----------------------------------------------------------------------------
(* voice_input.py: VoiceInput under a caller that starts and stops it, its *)
(* audio callback and the monotonic clock                                  *)

CapTicks == 2         \* ticks of the monotonic clock within max_seconds
MaxLate == 2          \* ticks the clock runs on after max_seconds
MaxFrames == 2        \* frames one recording holds
MaxRecordings == 2    \* recordings started

SecondsPerTick == max_seconds \div CapTicks

InitVoice ==
    /\ UiIdle
    /\ texto = "" /\ max_chars = 0 /\ adjuntos = <<>> /\ salida = Idle
    /\ MotorIdle
    /\ LoadIdle
    /\ PoolIdle
    /\ VoiceIdle

\* time.monotonic() advances.
TickMono ==
    /\ mono < max_seconds + MaxLate * SecondsPerTick
    /\ mono' = mono + SecondsPerTick
    /\ last' = Did("tick", TRUE)
    /\ UNCHANGED <<voice, campos, hilos, bucle, notVoice>>

\* The sound device calls _callback with a frame.
AudioCallback(status) ==
    /\ voice.stream # None
    /\ voice.stream[1].active
    /\ voice' = callback(voice, mono, status)
    /\ Len(voice'.audio_chunks) <= MaxFrames
    /\ last' = Did("callback", ~status)
    /\ UNCHANGED <<mono, campos, hilos, bucle, notVoice>>

\* A call of start_recording
StartRecording(f, mic) ==
    LET r == start_recording(voice, mono, f, mic)
    IN  /\ r.v.n <= MaxRecordings
        /\ voice' = r.v
        /\ last' = [op |-> "start_recording", exc |-> r.exc]
        /\ UNCHANGED <<mono, campos, hilos, bucle, notVoice>>

\* A call of stop_recording
StopRecording(api) ==
    LET r == stop_recording(voice, api)
    IN  /\ voice' = r.v
        /\ last' = [op |-> "stop_recording", exc |-> r.exc, text |-> r.text]
        /\ UNCHANGED <<mono, campos, hilos, bucle, notVoice>>

NextVoice ==
    \/ TickMono
    \/ \E status \in BOOLEAN : AudioCallback(status)
    \/ \E f \in Fields : \E mic \in Microphones : StartRecording(f, mic)
    \/ \E api \in ApiAnswers : StopRecording(api)

SpecVoice == InitVoice /\ [][NextVoice]_vars

\* The frames of the buffer were captured less than max_seconds after the
\* recording started.
WithinCap(v) ==
    v.recording_started_at # None =>
        \A i \in 1..Len(v.audio_chunks) :
            v.audio_chunks[i].at - v.recording_started_at[1] < max_seconds

\* C24: once max_seconds have elapsed since start_recording no frame is
\* appended to the buffer of that recording: a step that appends one is taken
\* less than max_seconds after the start, and the buffer stop_recording hands
\* to transcription holds only frames captured before the cap.
C24_HardCap ==
    [][/\ Len(voice'.audio_chunks) > Len(voice.audio_chunks) =>
              /\ voice.recording_started_at # None
              /\ mono - voice.recording_started_at[1] < max_seconds
       /\ WithinCap(voice')
       /\ last'.op = "stop_recording" =>
              \A i \in 1..Len(last'.text) :
                  /\ voice.recording_started_at # None
                  /\ last'.text[i].at - voice.recording_started_at[1] < max_seconds]_vars

\* The cap has passed in a recording that holds frames: the callback has
\* stopped the stream.
C24_Witness ==
    /\ voice.is_recording
    /\ voice.audio_chunks # <<>>
    /\ mono - voice.recording_started_at[1] > max_seconds
    /\ ~voice.stream[1].active

\* The recorder holds a stream exactly while it is recording.
RecorderConsistent(v) ==
    /\ v.is_recording <=> v.stream # None
    /\ v.is_recording <=> v.recording_started_at # None

\* C30: is_recording becomes True by a successful start_recording and False
\* by the next stop_recording, and by nothing else; after stop_recording,
\* returned or raised, is_recording is False and no stream is held;
\* start_recording while recording changes nothing, the frames included;
\* stop_recording without a recording raises and changes nothing.
C30_RecorderState ==
    [][/\ RecorderConsistent(voice')
       /\ ~voice.is_recording /\ voice'.is_recording =>
              last' = [op |-> "start_recording", exc |-> "none"]
       /\ ~voice.is_recording /\ last' = [op |-> "start_recording", exc |-> "none"] =>
              voice'.is_recording
       /\ voice.is_recording /\ ~voice'.is_recording => last'.op = "stop_recording"
       /\ last'.op = "stop_recording" => ~voice'.is_recording /\ voice'.stream = None
       /\ voice.is_recording /\ last'.op = "start_recording" =>
              voice' = voice /\ last'.exc = "none"
       /\ ~voice.is_recording /\ last'.op = "stop_recording" =>
              voice' = voice /\ last'.exc = "RuntimeError"]_vars

\* start_recording has just been called on a recording that holds frames.
C30_Witness ==
    /\ last = [op |-> "start_recording", exc |-> "none"]
    /\ voice.is_recording
    /\ voice.audio_chunks # <<>>
    /\ voice.n = MaxRecordings

-----------------------------------------------------------------------------
(* widgets/dictation_field.py: the dictation fields, their worker threads *)
(* and the callbacks they give to the loop of the front end               *)

MaxWords == 1         \* frames one dictation holds

StopButton(state) == [text |-> "stop", state |-> state]

\* _toggle_dictation: which way the handler of field c goes
toggle_dictation_reentrant(c, v) ==
    IF v.is_recording THEN "_stop_dictation" ELSE "_start_dictation"

toggle_dictation(c, v) ==
    IF c.is_transcribing THEN "return"
    ELSE IF v.is_recording THEN "_stop_dictation"
    ELSE "_start_dictation"

\* The button of field f is pressed: _toggle_dictation
Press(f, mic) ==
    LET way == toggle_dictation(campos[f], voice)
        r == start_recording(voice, mono, f, mic)
    IN  /\ last' = [op |-> "_toggle_dictation", f |-> f, way |-> way]
        /\ CASE way = "return" ->
                  UNCHANGED <<voice, campos, hilos>>
             [] way = "_stop_dictation" ->
                  /\ campos' = [campos EXCEPT ![f].is_transcribing = TRUE,
                                              ![f].button = StopButton("disabled")]
                  /\ hilos' = [hilos EXCEPT ![f] = [pc |-> "stop_recording",
                                                    audio |-> <<>>, para |-> voice.n]]
                  /\ UNCHANGED voice
             [] way = "_start_dictation" ->
                  /\ r.v.n <= MaxRecordings
                  /\ voice' = r.v
                  /\ campos' = IF r.exc = "none"
                               THEN [campos EXCEPT ![f].button = StopButton("normal")]
                               ELSE campos
                  /\ UNCHANGED hilos
        /\ UNCHANGED <<mono, bucle, notVoice>>

\* The except clause of _transcribe_worker: after(0, lambda: ...(exc)); the
\* thread is then about to leave the clause, where exc is unbound.
Excepted(f) == [pc |-> "leaving", audio |-> <<>>, para |-> hilos[f].para]

OnError(f) == [fn |-> "_on_transcription_error", f |-> f, text |-> <<>>]

\* _transcribe_worker: stop_recording as far as its finally clause
HiloStop(f) ==
    LET s == stop_stream(voice)
    IN  /\ hilos[f].pc = "stop_recording"
        /\ voice' = s.v
        /\ IF s.exc = "none"
           THEN /\ hilos' = [hilos EXCEPT ![f].pc = "take"]
                /\ UNCHANGED bucle
           ELSE /\ hilos' = [hilos EXCEPT ![f] = Excepted(f)]
                /\ bucle' = Append(bucle, OnError(f))
        /\ UNCHANGED <<mono, campos, last, notVoice>>

\* _transcribe_worker: stop_recording under the lock
HiloTake(f) ==
    LET a == take_audio(voice)
    IN  /\ hilos[f].pc = "take"
        /\ voice' = a.v
        /\ IF a.exc = "none"
           THEN /\ hilos' = [hilos EXCEPT ![f].pc = "transcribe", ![f].audio = a.audio]
                /\ UNCHANGED bucle
           ELSE /\ hilos' = [hilos EXCEPT ![f] = Excepted(f)]
                /\ bucle' = Append(bucle, OnError(f))
        /\ UNCHANGED <<mono, campos, last, notVoice>>

\* _transcribe_worker: transcribe returns and after(0, lambda: ...(text))
\* ends the thread, or it raises.
HiloTranscribe(f, api) ==
    LET r == transcribe(hilos[f].audio, api)
    IN  /\ hilos[f].pc = "transcribe"
        /\ IF r.exc = "none"
           THEN /\ hilos' = [hilos EXCEPT ![f] = NoThread]
                /\ bucle' = Append(bucle, [fn |-> "_on_transcription_done", f |-> f,
                                           text |-> r.text])
           ELSE /\ hilos' = [hilos EXCEPT ![f] = Excepted(f)]
                /\ bucle' = Append(bucle, OnError(f))
        /\ UNCHANGED <<mono, voice, campos, last, notVoice>>

\* _transcribe_worker leaves its except clause: exc is deleted, and the
\* lambda given to after() refers to it.
HiloLeave(f) ==
    /\ hilos[f].pc = "leaving"
    /\ hilos' = [hilos EXCEPT ![f].pc = "left"]
    /\ UNCHANGED <<mono, voice, campos, bucle, last, notVoice>>

\* _on_transcription_done
on_transcription_done(c, text) ==
    [is_transcribing |-> FALSE, button |-> MicButton, text |-> c.text \o text]

\* _on_transcription_error
on_transcription_error(c) ==
    [c EXCEPT !.is_transcribing = FALSE, !.button = MicButton]

\* The lambda of an after(0, ...) as the loop calls it: that of the except
\* clause raises NameError once the thread has left the clause.
run_callback_bound(cb, c, pc) ==
    IF cb.fn = "_on_transcription_done"
    THEN [c |-> on_transcription_done(c, cb.text),
          shown |-> IF cb.text = <<>> THEN "showwarning" ELSE "none"]
    ELSE [c |-> on_transcription_error(c), shown |-> "showerror"]

run_callback(cb, c, pc) ==
    IF cb.fn = "_on_transcription_done"
    THEN [c |-> on_transcription_done(c, cb.text),
          shown |-> IF cb.text = <<>> THEN "showwarning" ELSE "none"]
    ELSE IF pc = "leaving"
    THEN [c |-> on_transcription_error(c), shown |-> "showerror"]
    ELSE [c |-> c, shown |-> "NameError"]

\* The loop of the front end runs the next callback.
RunCallback ==
    /\ bucle # <<>>
    /\ LET cb == Head(bucle)
           r == run_callback(cb, campos[cb.f], hilos[cb.f].pc)
       IN  /\ campos' = [campos EXCEPT ![cb.f] = r.c]
           /\ hilos' = IF cb.fn = "_on_transcription_error"
                       THEN [hilos EXCEPT ![cb.f] = NoThread]
                       ELSE hilos
           /\ last' = [op |-> "callback", f |-> cb.f, shown |-> r.shown]
    /\ bucle' = Tail(bucle)
    /\ UNCHANGED <<mono, voice, notVoice>>

\* A frame arrives while the fields are at work.
Frame ==
    /\ voice.stream # None
    /\ voice.stream[1].active
    /\ voice' = callback(voice, mono, FALSE)
    /\ Len(voice'.audio_chunks) <= MaxWords
    /\ UNCHANGED <<mono, campos, hilos, bucle, last, notVoice>>

NextDictation ==
    \/ \E f \in Fields : \E mic \in Microphones : Press(f, mic)
    \/ Frame
    \/ \E f \in Fields : HiloStop(f)
    \/ \E f \in Fields : HiloTake(f)
    \/ \E f \in Fields : \E api \in ApiAnswers : HiloTranscribe(f, api)
    \/ \E f \in Fields : HiloLeave(f)
    \/ RunCallback

SpecDictation == InitVoice /\ [][NextDictation]_vars

\* The button of field f has just been pressed.
Pressed(f) == last' # last /\ last'.op = "_toggle_dictation" /\ last'.f = f

\* The loop has just run a callback of field f.
CalledBack(f) == bucle # <<>> /\ Head(bucle).f = f /\ bucle' = Tail(bucle)

\* C25: a press that stops a recording starts exactly one transcription
\* worker, that of the field pressed; while a field's transcription is in
\* progress a press of its button starts no recording and no second
\* transcription, and the field changes only in the step of the callback its
\* worker gave to the loop.
C25_OneTranscription ==
    [][\A f \in Fields :
           /\ Pressed(f) /\ ~campos[f].is_transcribing /\ voice.is_recording =>
                  /\ hilos[f] = NoThread
                  /\ hilos' = [hilos EXCEPT ![f] = [pc |-> "stop_recording",
                                                    audio |-> <<>>, para |-> voice.n]]
                  /\ campos'[f].is_transcribing
           /\ Pressed(f) /\ campos[f].is_transcribing =>
                  /\ voice' = voice
                  /\ hilos' = hilos
                  /\ campos' = campos
                  /\ bucle' = bucle
           /\ campos[f].is_transcribing /\ campos'[f] # campos[f] => CalledBack(f)]_vars

\* The button of a field was pressed while its transcription was in progress
\* and its worker inside stop_recording.
C25_Witness ==
    \E f \in Fields :
        /\ last = [op |-> "_toggle_dictation", f |-> f, way |-> "return"]
        /\ campos[f].is_transcribing
        /\ hilos[f].pc = "transcribe"

\* The threads and the loop get their turn: a started thread runs on, and
\* the loop of the front end runs the callbacks given to it.
FairDictation ==
    /\ \A f \in Fields :
           WF_vars(HiloStop(f) \/ HiloTake(f) \/ HiloLeave(f)
                       \/ \E api \in ApiAnswers : HiloTranscribe(f, api))
    /\ WF_vars(RunCallback)

SpecDictationFair == InitVoice /\ [][NextDictation]_vars /\ FairDictation

\* C26: every transcription started from a field ends with the field idle
\* again, its _is_transcribing False and its button enabled.
C26_BackToIdle ==
    \A f \in Fields :
        campos[f].is_transcribing
            ~> (~campos[f].is_transcribing /\ campos[f].button = MicButton)

\* C29: the words of a recording are inserted only into the field whose
\* button started it, and no two workers are about to call stop_recording
\* for the same recording.
C29_OwnFieldOnly ==
    /\ \A f \in Fields : \A i \in 1..Len(campos[f].text) : campos[f].text[i].de = f
    /\ \A f, g \in Fields :
           /\ hilos[f].pc = "stop_recording"
           /\ hilos[g].pc = "stop_recording"
           /\ hilos[f].para = hilos[g].para
           => f = g

=============================================================================
